---------------------------- MODULE Spec2Model ----------------------------
(***************************************************************************)
(* A model of vault-secrets-reloader (package pkg/reloader): the reference *)
(* parser, the workload/secret store, the collector's event handlers and   *)
(* the reloader round.                                                     *)
(*                                                                         *)
(* Strings are sequences of tokens.  A token is a substring of the real    *)
(* string that the parser can only treat as a unit: the sentinel "vault:", *)
(* the separators "#" and ",", and plain characters.  No token is a prefix *)
(* of another and no two start with the same character, so searching,      *)
(* splitting and comparing token sequences agrees with the byte-wise       *)
(* operations of the Go code.                                              *)
(***************************************************************************)
EXTENDS Integers, Sequences, FiniteSets, TLC

VARIABLES
    workloadSecretsMap,  \* workloadSecrets.workloadSecretsMap: workload -> list of secretMetadata
    workloadTracking,    \* Controller.workloadTracking: workload -> workloadTrackingInfo
    secretVersions,      \* Controller.secretVersions: path -> last version seen by a round
    objects,             \* the informer's last delivered state of each workload (template id or NoObject)
    vault,               \* the backend: KV path -> current version
    now,                 \* the clock, in seconds
    lastRound,           \* history: what the reloader round that has just returned did
    held,                \* history: a result of GetWorkloadSecretsMap kept by a caller
    applied,             \* history: the argument and the result of a function called on its own
    run,                 \* Controller.Run: its position, the context, and the reloader loop it launched
    pc,                  \* goroutine -> where it is inside a call on the index or inside a round
    round                \* runReloader's local variables while a round is taken step by step

vars == <<workloadSecretsMap, workloadTracking, secretVersions, objects, vault, now,
          lastRound, held, applied, run, pc, round>>

---------------------------------------------------------------------------
(* Bounds *)

MaxVersion == 2   \* KV versions run over 1..MaxVersion
MaxTicks == 2     \* the clock is advanced at most MaxTicks times
MaxPods == 2      \* longest pod list handed to trackWorkloadRestartTime
MaxRefs == 2      \* longest reference list handed to Store directly
MaxCountLen == 2   \* longest reload-count annotation value, in characters
IntBits == 5       \* width of int, scaled down from strconv.IntSize
MaxTokens == 6     \* longest string handed to the parser, in tokens
MaxEnvVars == 2    \* most env values of a pod template handed to collectSecrets

---------------------------------------------------------------------------
(* Strings *)

VaultPrefix == "vault:"
Hash == "#"
Comma == ","
NineRun == "9..9"   \* a run of UintMaxDigits nines, e.g. 99999999999999999999

\* strconv.ParseUint(value, 10, 64): the largest value has this many decimal digits
UintMaxDigits == 20

DigitTokens == {"1", NineRun}
Tokens == {VaultPrefix, Hash, Comma, "a", "b", "d", "f", "1", NineRun}

\* Byte order of the tokens' first characters: '#' < ',' < '1' < '9' < 'a' < ... < 'v'
TokenRank(t) ==
    CASE t = Hash -> 1
      [] t = Comma -> 2
      [] t = "1" -> 3
      [] t = NineRun -> 4
      [] t = "a" -> 5
      [] t = "b" -> 6
      [] t = "d" -> 7
      [] t = "f" -> 8
      [] t = VaultPrefix -> 9

Min(S) == CHOOSE x \in S : \A y \in S : x <= y

\* the numbers of S in ascending order
RECURSIVE Ascending(_)
Ascending(S) == IF S = {} THEN <<>> ELSE <<Min(S)>> \o Ascending(S \ {Min(S)})

Range(s) == {s[i] : i \in DOMAIN s}

\* strings.Index(s[from:], tok) as a 1-based position in s, 0 when absent
IndexFrom(s, tok, from) ==
    LET hits == {i \in from..Len(s) : s[i] = tok}
    IN  IF hits = {} THEN 0 ELSE Min(hits)

\* strings.Split(s, sep) for a one-token separator
RECURSIVE Split(_, _)
Split(s, sep) ==
    LET i == IndexFrom(s, sep, 1)
    IN  IF i = 0 THEN <<s>>
        ELSE <<SubSeq(s, 1, i - 1)>> \o Split(SubSeq(s, i + 1, Len(s)), sep)

\* s < t in Go's string order
RECURSIVE StrLess(_, _)
StrLess(s, t) ==
    IF t = <<>> THEN FALSE
    ELSE IF s = <<>> THEN TRUE
    ELSE IF s[1] # t[1] THEN TokenRank(s[1]) < TokenRank(t[1])
    ELSE StrLess(Tail(s), Tail(t))

RECURSIVE DecimalLen(_)
DecimalLen(s) ==
    IF s = <<>> THEN 0
    ELSE (IF s[1] = NineRun THEN UintMaxDigits ELSE 1) + DecimalLen(Tail(s))

\* isAllDigits: strconv.ParseUint(value, 10, 64) returns no error.  It fails on
\* any character that is no digit and on a value above 2^64 - 1 (ErrRange).
\* The digit tokens are "1" and a run of twenty nines, so a digit string is in
\* range iff it has fewer than twenty digits, or exactly twenty that start with 1.
isAllDigits(value) ==
    /\ value # <<>>
    /\ \A i \in DOMAIN value : value[i] \in DigitTokens
    /\ \/ DecimalLen(value) < UintMaxDigits
       \/ DecimalLen(value) = UintMaxDigits /\ value[1] = "1"

\* isValidVaultSubstring: the regexp vault:([^#]+)# matches somewhere in value
isValidVaultSubstring(value) ==
    \E i \in DOMAIN value : \E j \in DOMAIN value :
        /\ value[i] = VaultPrefix
        /\ j >= i + 2
        /\ value[j] = Hash
        /\ \A k \in (i + 1)..(j - 1) : value[k] # Hash

\* The versioned test of one segment's text after its first '#'
remainderIsVersioned(remainder) ==
    /\ remainder # <<>>
    /\ LET parts == Split(remainder, Hash)
       IN  /\ Len(parts) >= 2
           /\ parts[Len(parts)] # <<>>
           /\ isAllDigits(parts[Len(parts)])

\* extractVaultSecretSegments: the loop, from searchIndex (1-based) on
RECURSIVE extractFrom(_, _)
extractFrom(value, searchIndex) ==
    LET v == IndexFrom(value, VaultPrefix, searchIndex)
    IN  IF v = 0 THEN <<>>
        ELSE
          LET start == v + 1
              next == IndexFrom(value, VaultPrefix, start)
              segmentEnd == IF next = 0 THEN Len(value) + 1 ELSE next
              segment == SubSeq(value, start, segmentEnd - 1)
              firstHash == IndexFrom(segment, Hash, 1)
              path == SubSeq(segment, 1, firstHash - 1)
              remainder == SubSeq(segment, firstHash + 1, Len(segment))
          IN  IF firstHash = 0 THEN extractFrom(value, start)
              ELSE IF path = <<>> THEN extractFrom(value, start)
              ELSE <<[Path |-> path, IsVersioned |-> remainderIsVersioned(remainder)]>>
                       \o extractFrom(value, start)

\* extractVaultSecretSegments with every repeated segment dropped
extractVaultSecretSegmentsCompacted(value) ==
    LET all == extractFrom(value, 1)
        firsts == Ascending({k \in DOMAIN all : \A j \in 1..(k - 1) : all[j] # all[k]})
    IN  [n \in DOMAIN firsts |-> all[firsts[n]]]

extractVaultSecretSegments(value) == extractFrom(value, 1)

\* The paths of the segments that are not versioned, in order
RECURSIVE unversionedPaths(_)
unversionedPaths(segments) ==
    IF segments = <<>> THEN <<>>
    ELSE (IF segments[1].IsVersioned THEN <<>> ELSE <<segments[1].Path>>)
             \o unversionedPaths(Tail(segments))

\* collectSecretsFromContainerEnvVars over the env values of all containers
RECURSIVE collectSecretsFromContainerEnvVars(_)
collectSecretsFromContainerEnvVars(env) ==
    IF env = <<>> THEN <<>>
    ELSE (IF ~isValidVaultSubstring(env[1]) THEN <<>>
          ELSE unversionedPaths(extractVaultSecretSegments(env[1])))
             \o collectSecretsFromContainerEnvVars(Tail(env))

\* The entries of one annotation value: split on ',' and parse each entry
RECURSIVE annotationEntries(_)
annotationEntries(entries) ==
    IF entries = <<>> THEN <<>>
    ELSE unversionedPaths(extractVaultSecretSegments(entries[1]))
             \o annotationEntries(Tail(entries))

\* collectSecretsFromAnnotations: the primary annotation, then the deprecated one
collectSecretsFromAnnotations(fromPath, deprecated) ==
    LET primary == IF fromPath # <<>> THEN annotationEntries(Split(fromPath, Comma))
                   ELSE <<>>
    IN  IF Len(primary) # 0 THEN primary
        ELSE IF deprecated # <<>> THEN annotationEntries(Split(deprecated, Comma))
        ELSE <<>>

\* slices.Sort then slices.Compact: the distinct elements in ascending order
RECURSIVE SortedSeq(_)
SortedSeq(S) ==
    IF S = {} THEN <<>>
    ELSE LET m == CHOOSE x \in S : \A y \in S : x = y \/ StrLess(x, y)
         IN  <<m>> \o SortedSeq(S \ {m})

collectSecrets(template) ==
    SortedSeq(Range(collectSecretsFromContainerEnvVars(template.env)
                    \o collectSecretsFromAnnotations(template.fromPath, template.deprecated)))


---------------------------------------------------------------------------
(* Data *)

\* DynamicSecretRestartThreshold, the default 0.7, as ThresholdNum / ThresholdDen
ThresholdNum == 7
ThresholdDen == 10

Workloads == {"w1", "w2"}
NoObject == "none"

PathA == <<"a">>
PathB == <<"b">>
PathD == <<"d">>
KVPaths == {PathA, PathB}     \* mounts that answer with metadata.version
DynamicPaths == {PathD}       \* mounts that answer with a lease
LeaseTTLs == {ThresholdDen, ThresholdDen + 1}   \* lease durations the backend hands out
TickSeconds == ThresholdNum   \* the clock advances in steps of TickSeconds

\* Pod templates the informers deliver.  env lists the env values of the
\* containers followed by those of the init containers.
Templates ==
    [ off     |-> [optIn |-> FALSE, env |-> <<<<VaultPrefix, "a", Hash, "f">>>>,
                   fromPath |-> <<>>, deprecated |-> <<>>],
      useA    |-> [optIn |-> TRUE, env |-> <<<<VaultPrefix, "a", Hash, "f">>>>,
                   fromPath |-> <<>>, deprecated |-> <<>>],
      useAB   |-> [optIn |-> TRUE,
                   env |-> <<<<VaultPrefix, "a", Hash, "f">>, <<VaultPrefix, "b", Hash, "f">>,
                             <<VaultPrefix, "a", Hash, "f">>>>,
                   fromPath |-> <<>>, deprecated |-> <<>>],
      pinA    |-> [optIn |-> TRUE, env |-> <<<<VaultPrefix, "a", Hash, "f", Hash, "1">>>>,
                   fromPath |-> <<>>, deprecated |-> <<>>],
      pinAbig |-> [optIn |-> TRUE, env |-> <<<<VaultPrefix, "a", Hash, "f", Hash, NineRun>>>>,
                   fromPath |-> <<>>, deprecated |-> <<>>],
      useD    |-> [optIn |-> TRUE, env |-> <<<<VaultPrefix, "d", Hash, "f">>>>,
                   fromPath |-> <<>>, deprecated |-> <<>>],
      useAD   |-> [optIn |-> TRUE,
                   env |-> <<<<VaultPrefix, "a", Hash, "f">>, <<VaultPrefix, "d", Hash, "f">>>>,
                   fromPath |-> <<>>, deprecated |-> <<>>] ]

RoundTemplates == {"useA", "useAB"}
ChurnTemplates == {"off", "useA", "pinA", "pinAbig"}
TTLTemplates == {"useD", "useAD"}
TTLWorkloads == {"w1"}

EmptyMap == [x \in {} |-> 0]
MapPut(m, k, v) == [x \in DOMAIN m \cup {k} |-> IF x = k THEN v ELSE m[x]]
MapDel(m, k) == [x \in DOMAIN m \ {k} |-> m[x]]
MapGet(m, k, zero) == IF k \in DOMAIN m THEN m[k] ELSE zero

\* secretMetadata values
KVMeta(path, version) ==
    [Path |-> path, IsKV |-> TRUE, KVVersion |-> version,
     IsDynamic |-> FALSE, DynamicLeaseTTL |-> 0]
DynamicMeta(path, ttl) ==
    [Path |-> path, IsKV |-> FALSE, KVVersion |-> 0,
     IsDynamic |-> TRUE, DynamicLeaseTTL |-> ttl]

---------------------------------------------------------------------------
(* The store: workloadSecrets *)

\* workloadSecrets.Store
Store(m, workload, secrets) == MapPut(m, workload, secrets)

\* workloadSecrets.Delete
Delete(m, workload) == MapDel(m, workload)

\* append(secretWorkloads[secretMetadata], workload).  The list is kept as a
\* bag (workload -> number of occurrences): its order is the iteration order of
\* a Go map, which is unspecified.
appendWorkload(secretWorkloads, sm, workload) ==
    LET list == MapGet(secretWorkloads, sm, EmptyMap)
    IN  MapPut(secretWorkloads, sm, MapPut(list, workload, MapGet(list, workload, 0) + 1))

\* A mutant of rangeSecrets: only the first secret of the list is taken
rangeSecretsFirstOnly(secretWorkloads, workload, secretsMetadata) ==
    IF secretsMetadata = <<>> THEN secretWorkloads
    ELSE appendWorkload(secretWorkloads, secretsMetadata[1], workload)

\* The inner loop of GetSecretWorkloadsMap over one workload's list
RECURSIVE rangeSecrets(_, _, _)
rangeSecrets(secretWorkloads, workload, secretsMetadata) ==
    IF secretsMetadata = <<>> THEN secretWorkloads
    ELSE rangeSecrets(appendWorkload(secretWorkloads, secretsMetadata[1], workload),
                      workload, Tail(secretsMetadata))

\* The outer loop of GetSecretWorkloadsMap over the workloads still to visit
RECURSIVE rangeWorkloads(_, _, _)
rangeWorkloads(secretWorkloads, m, todo) ==
    IF todo = {} THEN secretWorkloads
    ELSE LET w == CHOOSE x \in todo : TRUE
         IN  rangeWorkloads(rangeSecrets(secretWorkloads, w, m[w]), m, todo \ {w})

\* workloadSecrets.GetSecretWorkloadsMap
GetSecretWorkloadsMap(m) == rangeWorkloads(EmptyMap, m, DOMAIN m)

\* GetSecretWorkloadsMap as the reloader's loop takes it, keyed by secretPath:
\* the inner loop over one workload's list
RECURSIVE rangeSecretPaths(_, _, _)
rangeSecretPaths(secretWorkloads, workload, secretsMetadata) ==
    IF secretsMetadata = <<>> THEN secretWorkloads
    ELSE rangeSecretPaths(appendWorkload(secretWorkloads, secretsMetadata[1].Path, workload),
                          workload, Tail(secretsMetadata))

\* and the outer loop over the workloads still to visit
RECURSIVE rangeWorkloadPaths(_, _, _)
rangeWorkloadPaths(secretWorkloads, m, todo) ==
    IF todo = {} THEN secretWorkloads
    ELSE LET w == CHOOSE x \in todo : TRUE
         IN  rangeWorkloadPaths(rangeSecretPaths(secretWorkloads, w, m[w]), m, todo \ {w})

GetSecretWorkloadsMapByPath(m) == rangeWorkloadPaths(EmptyMap, m, DOMAIN m)

\* workloadSecrets.GetWorkloadSecretsMap returns w.workloadSecretsMap itself: a Go
\* map value is a reference, so the caller holds the store's own map.
GetWorkloadSecretsMap(m) == [taken |-> TRUE, alias |-> TRUE, atCall |-> m]

\* What a caller reads through a result of GetWorkloadSecretsMap now
Contents(result) == IF result.alias THEN workloadSecretsMap ELSE result.atCall

NotHeld == [taken |-> FALSE, alias |-> FALSE, atCall |-> EmptyMap]
NoRound == [ran |-> FALSE, initErr |-> FALSE]
NotApplied == [done |-> FALSE, fn |-> "none"]
\* the goroutines that call into the controller: one per informer, and the reloader loop
Goroutines == {"deployments", "statefulsets", "reloader"}
Idle == [g \in Goroutines |-> "idle"]
NotInRound == [phase |-> "idle"]
\* Run has launched the reloader loop and waits for the context to end
Kinds == {"Deployment", "DaemonSet", "StatefulSet"}
Serving == [pc |-> "serving", ctxDone |-> FALSE, err |-> "none", loop |-> "wait",
            startedAfterDone |-> FALSE, synced |-> Kinds, roundBeforeSync |-> FALSE]
\* history: the round returned because initVaultClient failed
ClientError == [ran |-> FALSE, initErr |-> TRUE]
\* history: a goroutine of the round panicked, which ends the process
PanicRound == [ran |-> FALSE, initErr |-> FALSE, panic |-> TRUE]


---------------------------------------------------------------------------
(* The backend adapter *)

ReadOutcomes == {"ok", "notfound", "error"}

\* What vaultClient.Read returns: a backend error, nil, or a secret with its lease
\* fields and the state of Data["metadata"]["version"]
BackendError(e) == [kind |-> "error", error |-> e]
NilSecret == [kind |-> "nil"]
Secret(leaseID, leaseDuration, renewable, metadata, version) ==
    [kind |-> "secret", LeaseID |-> leaseID, LeaseDuration |-> leaseDuration,
     Renewable |-> renewable, metadata |-> metadata, version |-> version]

NoSecretInfo(error) ==
    [err |-> TRUE, error |-> error, IsKV |-> FALSE, Version |-> 0, IsDynamic |-> FALSE,
     LeaseDuration |-> 0, LeaseID |-> "", Renewable |-> FALSE]

\* an adapter that looks at the KV fields first and at the lease only without them
getSecretInfoKVFirst(secretPath, secret) ==
    IF secret.kind = "error" THEN NoSecretInfo(secret.error)
    ELSE IF secret.kind = "nil" THEN NoSecretInfo(<<"ErrSecretNotFound", secretPath>>)
    ELSE IF secret.metadata = "version"
    THEN [err |-> FALSE, error |-> <<>>, IsKV |-> TRUE, Version |-> secret.version,
          IsDynamic |-> FALSE, LeaseDuration |-> 0, LeaseID |-> "", Renewable |-> FALSE]
    ELSE IF secret.LeaseID # ""
    THEN [err |-> FALSE, error |-> <<>>, IsKV |-> FALSE, Version |-> 0, IsDynamic |-> TRUE,
          LeaseDuration |-> secret.LeaseDuration, LeaseID |-> secret.LeaseID,
          Renewable |-> secret.Renewable]
    ELSE NoSecretInfo(<<"no metadata field", secretPath>>)
\* an adapter that answers an unreadable path with an unclassified SecretInfo
getSecretInfoUnclassified(secretPath, secret) ==
    IF secret.kind # "secret" \/ (secret.LeaseID = "" /\ secret.metadata # "version")
    THEN [err |-> FALSE, error |-> <<>>, IsKV |-> FALSE, Version |-> 0, IsDynamic |-> FALSE,
          LeaseDuration |-> 0, LeaseID |-> "", Renewable |-> FALSE]
    ELSE getSecretInfoKVFirst(secretPath, secret)
\* getSecretInfoFromVault after its Read: the classification of the response
getSecretInfo(secretPath, secret) ==
    IF secret.kind = "error" THEN NoSecretInfo(secret.error)
    ELSE IF secret.kind = "nil" THEN NoSecretInfo(<<"ErrSecretNotFound", secretPath>>)
    ELSE IF secret.LeaseID # ""
    THEN [err |-> FALSE, error |-> <<>>, IsKV |-> FALSE, Version |-> 0, IsDynamic |-> TRUE,
          LeaseDuration |-> secret.LeaseDuration, LeaseID |-> secret.LeaseID,
          Renewable |-> secret.Renewable]
    ELSE IF secret.metadata = "absent" THEN NoSecretInfo(<<"no metadata field", secretPath>>)
    ELSE IF secret.metadata = "noversion" THEN NoSecretInfo(<<"metadata missing version field", secretPath>>)
    ELSE IF secret.metadata = "fraction" THEN NoSecretInfo(<<"strconv.ParseInt">>)
    ELSE [err |-> FALSE, error |-> <<>>, IsKV |-> TRUE, Version |-> secret.version,
          IsDynamic |-> FALSE, LeaseDuration |-> 0, LeaseID |-> "", Renewable |-> FALSE]

\* vaultClient.Read of secretPath: outcome is the backend's answer (a secret, nil,
\* or an error) and lease the lease duration a dynamic mount hands out.
Read(secretPath, outcome, lease) ==
    IF outcome = "notfound" \/ (outcome = "ok" /\ secretPath \notin KVPaths \cup DynamicPaths)
    THEN NilSecret
    ELSE IF outcome # "ok" THEN BackendError(<<"e1">>)
    ELSE IF secretPath \in DynamicPaths THEN Secret("lease-1", lease, TRUE, "absent", 0)
    ELSE Secret("", 0, FALSE, "version", vault[secretPath])

\* getSecretInfoFromVault: what one Read of secretPath classifies to
getSecretInfoFromVault(secretPath, outcome, lease) ==
    getSecretInfo(secretPath, Read(secretPath, outcome, lease))

\* getSecretVersionFromVault: the version a round reads, 0 with an error
getSecretVersionFromVault(secretPath, outcome) ==
    IF outcome = "nometadata"
    THEN [err |-> FALSE, version |-> 0, panic |-> TRUE]
    ELSE IF outcome = "ok" /\ secretPath \in KVPaths
    THEN [err |-> FALSE, version |-> vault[secretPath], panic |-> FALSE]
    ELSE [err |-> TRUE, version |-> 0, panic |-> FALSE]

---------------------------------------------------------------------------
(* The collector *)

\* a lookup that keeps every existing entry, KV ones too
anyMetadataByPath(existingMetadata, secretPath) ==
    LET hits == {i \in DOMAIN existingMetadata : existingMetadata[i].Path = secretPath}
    IN  IF hits = {} THEN <<>>
        ELSE <<existingMetadata[CHOOSE i \in hits : \A j \in hits : j <= i]>>
\* dynamicMetadataByPath[secretPath]: the last dynamic entry of the existing list
dynamicMetadataByPath(existingMetadata, secretPath) ==
    LET hits == {i \in DOMAIN existingMetadata :
                    existingMetadata[i].IsDynamic /\ existingMetadata[i].Path = secretPath}
    IN  IF hits = {} THEN <<>>
        ELSE <<existingMetadata[CHOOSE i \in hits : \A j \in hits : j <= i]>>

\* The loop of collectWorkloadSecrets that builds secretsMetadata
RECURSIVE buildSecretsMetadata(_, _, _, _)
buildSecretsMetadata(vaultSecretPaths, existingMetadata, outcome, lease) ==
    IF vaultSecretPaths = <<>> THEN <<>>
    ELSE
      LET secretPath == vaultSecretPaths[1]
          reused == dynamicMetadataByPath(existingMetadata, secretPath)
          secretInfo == getSecretInfoFromVault(secretPath, outcome[secretPath], lease)
          rest == buildSecretsMetadata(Tail(vaultSecretPaths), existingMetadata, outcome, lease)
      IN  IF reused # <<>> THEN reused \o rest
          ELSE IF secretInfo.err THEN rest
          ELSE IF secretInfo.IsKV THEN <<KVMeta(secretPath, secretInfo.Version)>> \o rest
          ELSE IF secretInfo.IsDynamic
               THEN <<DynamicMeta(secretPath, secretInfo.LeaseDuration)>> \o rest
          ELSE <<[Path |-> secretPath, IsKV |-> FALSE, KVVersion |-> 0,
                  IsDynamic |-> FALSE, DynamicLeaseTTL |-> 0]>> \o rest

\* The paths the loop hands to getSecretInfoFn, in order
getSecretInfoCalls(vaultSecretPaths, existingMetadata) ==
    SelectSeq(vaultSecretPaths, LAMBDA secretPath :
                  dynamicMetadataByPath(existingMetadata, secretPath) = <<>>)

\* collectSecrets over the pod template of every kind of object
collectedSecrets == [t \in DOMAIN Templates |-> collectSecrets(Templates[t])]

\* a collector that gives the workload up when one of its reads fails
collectWorkloadSecretsOrAbort(workload, t, initOK, outcome, lease) ==
    LET vaultSecretPaths == collectedSecrets[t]
        existingMetadata == MapGet(workloadSecretsMap, workload, <<>>)
        calls == getSecretInfoCalls(vaultSecretPaths, existingMetadata)
    IN  IF Len(vaultSecretPaths) = 0
        THEN /\ workloadTracking' = MapDel(workloadTracking, workload)
             /\ UNCHANGED workloadSecretsMap
        ELSE IF ~initOK \/ \E i \in DOMAIN calls : outcome[calls[i]] # "ok"
        THEN UNCHANGED <<workloadSecretsMap, workloadTracking>>
        ELSE /\ workloadSecretsMap' =
                    Store(workloadSecretsMap, workload,
                          buildSecretsMetadata(vaultSecretPaths, existingMetadata, outcome, lease))
             /\ UNCHANGED workloadTracking
\* collectWorkloadSecrets for a workload carrying pod template t
collectWorkloadSecrets(workload, t, initOK, outcome, lease) ==
    LET vaultSecretPaths == collectedSecrets[t]
        existingMetadata == MapGet(workloadSecretsMap, workload, <<>>)
    IN  IF Len(vaultSecretPaths) = 0
        THEN /\ workloadTracking' = MapDel(workloadTracking, workload)
             /\ UNCHANGED workloadSecretsMap
        ELSE IF ~initOK
        THEN UNCHANGED <<workloadSecretsMap, workloadTracking>>
        ELSE /\ workloadSecretsMap' =
                    Store(workloadSecretsMap, workload,
                          buildSecretsMetadata(vaultSecretPaths, existingMetadata, outcome, lease))
             /\ UNCHANGED workloadTracking

\* handleObject: an add or update event for workload carrying pod template t
handleObject(workload, t, initOK, outcome, lease) ==
    /\ objects' = [objects EXCEPT ![workload] = t]
    /\ IF ~Templates[t].optIn
       THEN UNCHANGED <<workloadSecretsMap, workloadTracking>>
       ELSE collectWorkloadSecrets(workload, t, initOK, outcome, lease)
    /\ lastRound' = NoRound
    /\ UNCHANGED <<secretVersions, vault, now, held, applied, run, pc, round>>

\* handleObjectDelete: a delete event, with the object itself or recovered from a
\* tombstone; either way it carries the last state the informer knew.
handleObjectDelete(workload) ==
    /\ objects[workload] # NoObject
    /\ objects' = [objects EXCEPT ![workload] = NoObject]
    /\ IF ~Templates[objects[workload]].optIn
       THEN UNCHANGED workloadSecretsMap
       ELSE workloadSecretsMap' = Delete(workloadSecretsMap, workload)
    /\ lastRound' = NoRound
    /\ UNCHANGED <<workloadTracking, secretVersions, vault, now, held, applied, run, pc, round>>


\* The loop of trackWorkloadRestartTime over the workload's secrets
RECURSIVE shortestTTLFrom(_, _)
shortestTTLFrom(shortest, secrets) ==
    IF secrets = <<>> THEN shortest
    ELSE LET secret == Head(secrets)
         IN  IF secret.IsDynamic /\ (shortest = 0 \/ secret.DynamicLeaseTTL < shortest)
             THEN shortestTTLFrom(secret.DynamicLeaseTTL, Tail(secrets))
             ELSE shortestTTLFrom(shortest, Tail(secrets))

\* trackWorkloadRestartTime: pods is the list of the workload's pods, each
\* [StartTime, HasStart, Phase, Terminating]
shortestTTL(workloadSecretsMeta) == shortestTTLFrom(0, workloadSecretsMeta)

\* the start times of all pods that have one, whatever their state
startTimesOfAllPods(pods) == {pods[i].StartTime : i \in {j \in DOMAIN pods : pods[j].HasStart}}
oldestStartTimes(pods) ==
    {pods[i].StartTime : i \in {j \in DOMAIN pods :
        pods[j].HasStart /\ pods[j].Phase = "Running" /\ ~pods[j].Terminating}}

trackWorkloadRestartTime(workload, pods) ==
    /\ IF workload \notin DOMAIN workloadSecretsMap \/ oldestStartTimes(pods) = {}
       THEN UNCHANGED workloadTracking
       ELSE workloadTracking' =
                MapPut(workloadTracking, workload,
                       [LastRestartTime |-> Min(oldestStartTimes(pods)),
                        ShortestDynamicTTL |-> shortestTTL(workloadSecretsMap[workload])])
    /\ lastRound' = NoRound
    /\ UNCHANGED <<workloadSecretsMap, secretVersions, objects, vault, now, held, run, pc, round>>

---------------------------------------------------------------------------
(* The reloader round *)

\* c.secretVersions[secretPath], 0 when the path has no entry
recordedVersion(versions, secretPath) == MapGet(versions, secretPath, 0)

\* Phase A is run for the KV entries only (the TTL phase and this filter belong
\* to the round as designed for dynamic secrets; the version switch, the rollout
\* loop and the replacement of secretVersions are those of runReloader)
versionCheckedKeys(m) ==
    {p \in DOMAIN GetSecretWorkloadsMapByPath(m) :
        \E w \in DOMAIN m : \E i \in DOMAIN m[w] : m[w][i].Path = p /\ m[w][i].IsKV}

\* A mutant of secretChanged: a path seen for the first time counts as changed
secretChangedOnFirstSight(versions, secretPath, outcome) ==
    LET read == getSecretVersionFromVault(secretPath, outcome[secretPath])
    IN  /\ ~read.err
        /\ recordedVersion(versions, secretPath) # read.version

\* A mutant of secretChanged: the recorded version is not compared with the read one
secretChangedUncompared(versions, secretPath, outcome) ==
    LET read == getSecretVersionFromVault(secretPath, outcome[secretPath])
    IN  /\ ~read.err
        /\ recordedVersion(versions, secretPath) # 0

\* A mutant of secretChanged: the error of the read is dropped and the zero
\* version it comes with is compared
secretChangedIgnoringError(versions, secretPath, outcome) ==
    LET read == getSecretVersionFromVault(secretPath, outcome[secretPath])
    IN  /\ recordedVersion(versions, secretPath) # 0
        /\ recordedVersion(versions, secretPath) # read.version

\* The switch of one Phase A task: the entry's workloads are marked
secretChanged(versions, secretPath, outcome) ==
    LET read == getSecretVersionFromVault(secretPath, outcome[secretPath])
    IN  /\ ~read.err
        /\ recordedVersion(versions, secretPath) # 0
        /\ recordedVersion(versions, secretPath) # read.version

\* How often Phase A writes workloadsToReload[workload] = true
RECURSIVE markCount(_, _, _)
markCount(secretWorkloads, changedKeys, workload) ==
    IF changedKeys = {} THEN 0
    ELSE LET k == CHOOSE x \in changedKeys : TRUE
         IN  MapGet(secretWorkloads[k], workload, 0)
                 + markCount(secretWorkloads, changedKeys \ {k}, workload)

\* A mutant of newSecretVersionsOf: c.secretVersions is updated in place
newSecretVersionsInPlace(keys, outcome) ==
    [p \in DOMAIN secretVersions
            \cup {k \in keys : ~getSecretVersionFromVault(k, outcome[k]).err} |->
        IF p \in keys /\ ~getSecretVersionFromVault(p, outcome[p]).err
        THEN getSecretVersionFromVault(p, outcome[p]).version
        ELSE secretVersions[p]]

\* newSecretVersions after Phase A: the version of every path read without error
newSecretVersionsOf(keys, outcome) ==
    [p \in {k \in keys : ~getSecretVersionFromVault(k, outcome[k]).err} |->
        getSecretVersionFromVault(p, outcome[p]).version]

\* A mutant of ttlThresholdReached: the threshold itself is not yet due
ttlThresholdPassed(tracking, t) ==
    /\ tracking.ShortestDynamicTTL # 0
    /\ (t - tracking.LastRestartTime) * ThresholdDen > ThresholdNum * tracking.ShortestDynamicTTL

\* Phase B: a tracked workload's dynamic TTL threshold has been reached at time t
ttlThresholdReached(tracking, t) ==
    /\ tracking.ShortestDynamicTTL # 0
    /\ (t - tracking.LastRestartTime) * ThresholdDen >= ThresholdNum * tracking.ShortestDynamicTTL

\* Phase B: the tracked workloads that are due
ttlDueWorkloads == {w \in DOMAIN workloadTracking : ttlThresholdReached(workloadTracking[w], now)}

\* A mutant of reloadCalls: workloadsToReload kept as a list, one entry per mark
reloadCallsPerMark(marks, ttlMarked) ==
    [w \in {x \in Workloads : marks[x] > 0 \/ x \in ttlMarked} |->
        marks[w] + (IF w \in ttlMarked THEN 1 ELSE 0)]

\* A mutant of reloadCalls: each phase keeps its own list and both are rolled out
reloadCallsPerPhase(marks, ttlMarked) ==
    [w \in {x \in Workloads : marks[x] > 0 \/ x \in ttlDueWorkloads} |->
        (IF marks[w] > 0 THEN 1 ELSE 0) + (IF w \in ttlDueWorkloads THEN 1 ELSE 0)]

\* Phase C: workloadsToReload is a map keyed by workload, and the rollout loop
\* starts one reloadWorkload per key
reloadCalls(marks, ttlMarked) ==
    [w \in {x \in Workloads : marks[x] > 0 \/ x \in ttlMarked} |-> 1]

\* A mutant of setLastRestart: every tracked workload is stamped, rolled out or not
setLastRestartOfAll(tracking, succeeded, t) ==
    [w \in DOMAIN tracking |-> [tracking[w] EXCEPT !.LastRestartTime = t]]

\* a rollout that leaves the tracking as it was
setLastRestartNever(tracking, succeeded, t) == tracking

\* tracking.lastRestartTime = now for the workloads whose rollout succeeded
setLastRestart(tracking, succeeded, t) ==
    [w \in DOMAIN tracking |->
        IF w \in succeeded THEN [tracking[w] EXCEPT !.LastRestartTime = t] ELSE tracking[w]]

\* an update that writes the version into every ref of the workload
UpdateKVVersionOfAll(m, w, path, newVersion) ==
    IF w \notin DOMAIN m THEN m
    ELSE [m EXCEPT ![w] = [i \in DOMAIN m[w] |-> [m[w][i] EXCEPT !.KVVersion = newVersion]]]
\* UpdateKVVersion(w, path, newVersion): the kvVersion of the workload's ref with
\* that path is set; nothing happens when the workload holds no such ref
UpdateKVVersion(m, w, path, newVersion) ==
    IF w \notin DOMAIN m THEN m
    ELSE [m EXCEPT ![w] = [i \in DOMAIN m[w] |->
                              IF m[w][i].Path = path
                              THEN [m[w][i] EXCEPT !.KVVersion = newVersion]
                              ELSE m[w][i]]]

\* Phase A: the version read for a changed path is written into the refs of the
\* workloads listed under it
RECURSIVE kvVersionsWritten(_, _, _, _)
kvVersionsWritten(m, secretWorkloads, changed, observed) ==
    IF changed = {} THEN m
    ELSE LET k == CHOOSE x \in changed : TRUE
             w == IF DOMAIN secretWorkloads[k] = {} THEN "none"
                  ELSE CHOOSE x \in DOMAIN secretWorkloads[k] : TRUE
         IN  IF DOMAIN secretWorkloads[k] = {}
             THEN kvVersionsWritten(m, secretWorkloads, changed \ {k}, observed)
             ELSE kvVersionsWritten(UpdateKVVersion(m, w, k, observed[k]),
                                    [secretWorkloads EXCEPT ![k] = MapDel(@, w)],
                                    changed, observed)

\* The paths whose read failed in the round
failedPaths(outcome) ==
    {p \in DOMAIN outcome : getSecretVersionFromVault(p, outcome[p]).err}

\* A mutant of changedKeys: one failed read and the round marks nothing
changedKeysUnlessError(keys, outcome) ==
    IF failedPaths(outcome) # {} THEN {}
    ELSE {k \in keys : secretChanged(secretVersions, k, outcome)}

\* Phase A over the snapshot: the tasks whose switch takes the default branch
changedKeys(keys, outcome) == {k \in keys : secretChanged(secretVersions, k, outcome)}

\* workloadsToReload after Phases A and B, with the number of reloadWorkload
\* calls Phase C makes for each
workloadsToReload(outcome) ==
    LET secretWorkloads == GetSecretWorkloadsMapByPath(workloadSecretsMap)
        changed == changedKeys(versionCheckedKeys(workloadSecretsMap), outcome)
        marks == [w \in Workloads |-> markCount(secretWorkloads, changed, w)]
    IN  reloadCalls(marks, {w \in ttlDueWorkloads : marks[w] = 0})

\* The checked paths whose recorded version differs from the backend's
differingPaths(keys) ==
    {p \in keys : recordedVersion(secretVersions, p) # 0
                    /\ recordedVersion(secretVersions, p) # vault[p]}

\* handleSecretError: the level the failed read is logged at; nothing else happens
handleSecretError(outcome, ignoreMissingSecrets) ==
    IF outcome = "notfound" /\ ignoreMissingSecrets THEN "warn" ELSE "error"

\* err := c.initVaultClient(); if err != nil { ...; return }
continuesOnError(initOK) == FALSE
returnsOnError(initOK) == ~initOK

\* runReloader: one round.  initOK says whether initVaultClient succeeds, outcome
\* what each read returns and rolloutOK which rollouts succeed.
runReloader(initOK, outcome, rolloutOK) ==
    LET keys == versionCheckedKeys(workloadSecretsMap)
        calls == workloadsToReload(outcome)
        succeeded == {w \in DOMAIN calls : w \in rolloutOK /\ objects[w] # NoObject}
    IN  IF DOMAIN Contents(GetWorkloadSecretsMap(workloadSecretsMap)) = {}
        THEN /\ lastRound' = NoRound
             /\ UNCHANGED <<workloadSecretsMap, workloadTracking, secretVersions,
                            objects, vault, now, held, pc, round>>
        ELSE IF returnsOnError(initOK)
        THEN /\ lastRound' = ClientError
             /\ UNCHANGED <<workloadSecretsMap, workloadTracking, secretVersions,
                            objects, vault, now, held, pc, round>>
        ELSE IF \E k \in keys : getSecretVersionFromVault(k, outcome[k]).panic
        THEN /\ lastRound' = PanicRound
             /\ UNCHANGED <<workloadSecretsMap, workloadTracking, secretVersions,
                            objects, vault, now, held, pc, round>>
        ELSE /\ secretVersions' = newSecretVersionsOf(keys, outcome)
             /\ workloadSecretsMap' =
                    kvVersionsWritten(workloadSecretsMap,
                                      GetSecretWorkloadsMapByPath(workloadSecretsMap),
                                      changedKeys(keys, outcome),
                                      [k \in keys |->
                                          getSecretVersionFromVault(k, outcome[k]).version])
             /\ workloadTracking' = setLastRestart(workloadTracking, succeeded, now)
             /\ lastRound' = [ran |-> TRUE,
                              initErr |-> ~initOK,
                              dropped |-> DOMAIN secretVersions \ keys,
                              afterCleanRound |-> lastRound.ran /\ lastRound.failed = {},
                              differs |-> differingPaths(keys),
                              failed |-> failedPaths(outcome),
                              tracking |-> workloadTracking,
                              calls |-> calls,
                              succeeded |-> succeeded]
             /\ UNCHANGED <<objects, vault, now, held, pc, round>>

---------------------------------------------------------------------------
(* The reload count of a pod template *)

\* annotation values are strings of at most MaxCountLen of these characters
CountChars == {"0", "1", "5", "9", "-", "+", "x"}
Digits == <<"0", "1", "2", "3", "4", "5", "6", "7", "8", "9">>
DigitValue(c) == CHOOSE d \in 0..9 : Digits[d + 1] = c
IsDigit(c) == \E d \in 0..9 : Digits[d + 1] = c

\* int, IntBits wide: the two's complement value of n
MaxInt == 2^(IntBits - 1) - 1
MinInt == -(2^(IntBits - 1))
wrapInt(n) == ((n - MinInt) % 2^IntBits) + MinInt

RECURSIVE digitsValue(_)
digitsValue(s) ==
    IF s = <<>> THEN 0
    ELSE digitsValue(SubSeq(s, 1, Len(s) - 1)) * 10 + DigitValue(s[Len(s)])

\* strconv.Atoi: an optional sign, then one or more digits, within the range of int
Atoi(s) ==
    LET signed == s # <<>> /\ s[1] \in {"+", "-"}
        digits == IF signed THEN Tail(s) ELSE s
        n == IF signed /\ s[1] = "-" THEN -digitsValue(digits) ELSE digitsValue(digits)
    IN  IF digits = <<>> \/ \E i \in 1..Len(digits) : ~IsDigit(digits[i])
        THEN [err |-> TRUE, n |-> 0]
        ELSE IF n < MinInt \/ n > MaxInt
        THEN [err |-> TRUE, n |-> 0]
        ELSE [err |-> FALSE, n |-> n]

RECURSIVE utoa(_)
utoa(n) == IF n < 10 THEN <<Digits[n + 1]>> ELSE utoa(n \div 10) \o <<Digits[(n % 10) + 1]>>

\* strconv.Itoa
Itoa(n) == IF n < 0 THEN <<"-">> \o utoa(-n) ELSE utoa(n)

ReloadCountAnnotationName == "alpha.vault.security.banzaicloud.io/secret-reload-count"
OtherAnnotationName == "other"

\* ObjectMeta.Annotations: a nil map, or a map from names to values
NilAnnotations == [isNil |-> TRUE, entries |-> EmptyMap]
Annotations(entries) == [isNil |-> FALSE, entries |-> entries]
GetAnnotation(annotations, name) ==
    IF name \in DOMAIN annotations.entries THEN annotations.entries[name] ELSE <<>>

\* incrementReloadCountAnnotation; the assignment into a nil map panics
incrementReloadCountAnnotation(annotations) ==
    LET reloadCount == GetAnnotation(annotations, ReloadCountAnnotationName)
        parsed == Atoi(reloadCount)
        version == IF reloadCount # <<>> /\ ~parsed.err
                   THEN Itoa(wrapInt(parsed.n + 1))
                   ELSE <<"1">>
    IN  IF annotations.isNil
        THEN [panic |-> TRUE, annotations |-> annotations]
        ELSE [panic |-> FALSE,
              annotations |-> Annotations(MapPut(annotations.entries,
                                                 ReloadCountAnnotationName, version))]

---------------------------------------------------------------------------
(* Specifications *)

Constructed ==
    /\ workloadSecretsMap = EmptyMap
    /\ workloadTracking = EmptyMap
    /\ secretVersions = EmptyMap
    /\ objects = [w \in Workloads |-> NoObject]
    /\ vault = [p \in KVPaths |-> 1]
    /\ now = 0
    /\ lastRound = NoRound
    /\ held = NotHeld

Init == Constructed /\ applied = NotApplied /\ run = Serving /\ pc = Idle /\ round = NotInRound

TemplatePaths(t) == Range(collectedSecrets[t])
CollectOutcomes == {"ok", "error"}

\* An informer add/update event for one of the given workloads, carrying one of
\* the given templates
objectEvent(workloads, templates) ==
    \E workload \in workloads, t \in templates, initOK \in BOOLEAN :
        \E outcome \in (IF initOK THEN [TemplatePaths(t) -> CollectOutcomes]
                                  ELSE {[p \in TemplatePaths(t) |-> "error"]}) :
            \E lease \in (IF TemplatePaths(t) \cap DynamicPaths = {} THEN {ThresholdDen} ELSE LeaseTTLs) :
                handleObject(workload, t, initOK, outcome, lease)

\* Somebody writes a new version of one of the given KV secrets
vaultWrite(paths) ==
    \E p \in paths :
        /\ vault[p] < MaxVersion
        /\ vault' = [vault EXCEPT ![p] = @ + 1]
        /\ lastRound' = NoRound
        /\ UNCHANGED <<workloadSecretsMap, workloadTracking, secretVersions, objects, now, held, applied, run, pc, round>>

\* The reloader's timer fires, the backend answering each read with one of the
\* given outcomes
runReloaderWith(outcomes) ==
    \E initOK \in BOOLEAN :
        IF initOK /\ DOMAIN workloadSecretsMap # {}
        THEN \E outcome \in [versionCheckedKeys(workloadSecretsMap) -> outcomes] :
                 \E rolloutOK \in SUBSET DOMAIN workloadsToReload(outcome) :
                     runReloader(initOK, outcome, rolloutOK)
        ELSE runReloader(initOK, [k \in versionCheckedKeys(workloadSecretsMap) |-> "error"], {})

reloaderRound(outcomes) == runReloaderWith(outcomes) /\ UNCHANGED <<applied, run>>

RunReloader == reloaderRound(ReadOutcomes)

\* Workloads referencing one or two KV secrets
HandleObject == objectEvent(Workloads, RoundTemplates)
VaultWrite == vaultWrite(KVPaths)

Next == HandleObject \/ VaultWrite \/ RunReloader

Spec == Init /\ [][Next]_vars

\* Workloads gaining and losing the annotation and their references, and going away
HandleObjectChurn == objectEvent(Workloads, ChurnTemplates)
HandleObjectDelete == \E workload \in Workloads : handleObjectDelete(workload)
VaultWriteA == vaultWrite({PathA})

NextCollect == HandleObjectChurn \/ HandleObjectDelete \/ VaultWriteA \/ RunReloader

SpecCollect == Init /\ [][NextCollect]_vars

\* The clock advances
Tick ==
    /\ now < MaxTicks * TickSeconds
    /\ now' = now + TickSeconds
    /\ lastRound' = NoRound
    /\ UNCHANGED <<workloadSecretsMap, workloadTracking, secretVersions, objects, vault, held, applied, run, pc, round>>

\* The pods a workload can be seen with: running since some earlier tick, or
\* one of the kinds trackWorkloadRestartTime passes over
Pods ==
    {[StartTime |-> t * TickSeconds, HasStart |-> TRUE, Phase |-> "Running", Terminating |-> FALSE] :
        t \in {x \in 0..MaxTicks : x * TickSeconds <= now}}
    \cup {[StartTime |-> 0, HasStart |-> FALSE, Phase |-> "Pending", Terminating |-> FALSE],
          [StartTime |-> 0, HasStart |-> TRUE, Phase |-> "Pending", Terminating |-> FALSE],
          [StartTime |-> 0, HasStart |-> TRUE, Phase |-> "Running", Terminating |-> TRUE]}

PodLists == UNION {[1..n -> Pods] : n \in 0..MaxPods}

\* The pods of a workload are listed and its restart time is tracked
TrackWorkloadRestartTime ==
    \E workload \in TTLWorkloads, pods \in PodLists :
        trackWorkloadRestartTime(workload, pods) /\ UNCHANGED applied

\* A workload referencing dynamic secrets
HandleObjectTTL == objectEvent(TTLWorkloads, TTLTemplates)

NextTTL == HandleObjectTTL \/ TrackWorkloadRestartTime \/ Tick \/ VaultWriteA \/ RunReloader

SpecTTL == Init /\ [][NextTTL]_vars

\* Two workloads, each referencing a KV and a dynamic secret, collected while
\* the backend answers every read
HandleObjectHealthy ==
    \E workload \in Workloads :
        handleObject(workload, "useAD", TRUE, [p \in TemplatePaths("useAD") |-> "ok"], ThresholdDen)

TrackAnyWorkload ==
    \E workload \in Workloads, pods \in PodLists :
        trackWorkloadRestartTime(workload, pods) /\ UNCHANGED applied

NextFleet == HandleObjectHealthy \/ TrackAnyWorkload \/ Tick \/ VaultWriteA \/ RunReloader

SpecFleet == Init /\ [][NextFleet]_vars

\* Workloads referencing KV secrets, collected while the backend answers every
\* read; later some of the secrets are missing
HandleObjectKV ==
    \E workload \in Workloads, t \in RoundTemplates :
        handleObject(workload, t, TRUE, [p \in TemplatePaths(t) |-> "ok"], ThresholdDen)

RunReloaderMissing == reloaderRound({"ok", "notfound"})

NextMissing == HandleObjectKV \/ VaultWrite \/ RunReloaderMissing

SpecMissing == Init /\ [][NextMissing]_vars

\* The same workloads, the backend now also answering with secrets that carry
\* no KV version metadata; nothing runs once the process has ended
Running == lastRound # PanicRound

HandleObjectWhileRunning == Running /\ HandleObjectKV
VaultWriteWhileRunning == Running /\ VaultWriteA
RunReloaderAnyAnswer == Running /\ reloaderRound(ReadOutcomes \cup {"nometadata"})

NextCrash == HandleObjectWhileRunning \/ VaultWriteWhileRunning \/ RunReloaderAnyAnswer

SpecCrash == Init /\ [][NextCrash]_vars

\* incrementReloadCountAnnotation called on its own, on every pod template whose
\* reload count is a string of at most MaxCountLen characters
RECURSIVE StringsUpTo(_, _)
StringsUpTo(chars, n) ==
    IF n = 0 THEN {<<>>}
    ELSE LET shorter == StringsUpTo(chars, n - 1)
         IN  shorter \cup {s \o <<c>> : s \in shorter, c \in chars}

CountStrings == StringsUpTo(CountChars, MaxCountLen)
OtherEntries == {EmptyMap, MapPut(EmptyMap, OtherAnnotationName, <<"x">>)}
PodAnnotations ==
    {NilAnnotations}
        \cup {Annotations(e) : e \in OtherEntries}
        \cup {Annotations(MapPut(e, ReloadCountAnnotationName, v)) :
                e \in OtherEntries, v \in CountStrings}

InitCount ==
    /\ Constructed /\ run = Serving /\ pc = Idle /\ round = NotInRound
    /\ applied \in {[done |-> FALSE, fn |-> "incrementReloadCountAnnotation", in |-> a] :
                        a \in PodAnnotations}

IncrementReloadCountAnnotation ==
    /\ applied.fn = "incrementReloadCountAnnotation" /\ ~applied.done
    /\ applied' = [applied EXCEPT !.done = TRUE]
                      @@ [out |-> incrementReloadCountAnnotation(applied.in)]
    /\ UNCHANGED <<workloadSecretsMap, workloadTracking, secretVersions, objects, vault, now,
                   lastRound, held, run, pc, round>>

NextCount == IncrementReloadCountAnnotation

SpecCount == InitCount /\ [][NextCount]_vars

\* The parser and the annotation collector called on their own, on every string
\* of at most MaxTokens tokens
ParseTokens == {VaultPrefix, Hash, Comma, "a", "1", NineRun}
Values == StringsUpTo(ParseTokens, MaxTokens)

InitParse ==
    /\ Constructed /\ run = Serving /\ pc = Idle /\ round = NotInRound
    /\ applied \in {[done |-> FALSE, fn |-> "string", in |-> v] : v \in Values}

ExtractVaultSecretSegments ==
    /\ applied.fn = "string" /\ ~applied.done
    /\ applied' = [done |-> TRUE, fn |-> "extractVaultSecretSegments", in |-> applied.in,
                   out |-> extractVaultSecretSegments(applied.in)]
    /\ UNCHANGED <<workloadSecretsMap, workloadTracking, secretVersions, objects, vault, now,
                   lastRound, held, run, pc, round>>

\* the string is the value of the vault-from-path annotation; no deprecated annotation
CollectSecretsFromAnnotations ==
    /\ applied.fn = "string" /\ ~applied.done
    /\ applied' = [done |-> TRUE, fn |-> "collectSecretsFromAnnotations", in |-> applied.in,
                   out |-> collectSecretsFromAnnotations(applied.in, <<>>)]
    /\ UNCHANGED <<workloadSecretsMap, workloadTracking, secretVersions, objects, vault, now,
                   lastRound, held, run, pc, round>>

NextParse == ExtractVaultSecretSegments \/ CollectSecretsFromAnnotations

SpecParse == InitParse /\ [][NextParse]_vars

\* Controller.Run from its call to the return, with the context that may end
\* at any moment and the loop wait.UntilWithContext runs in its own goroutine
Started == [pc |-> "syncing", ctxDone |-> FALSE, err |-> "none", loop |-> "idle",
            startedAfterDone |-> FALSE, synced |-> {}, roundBeforeSync |-> FALSE]

InitRun == Constructed /\ applied = NotApplied /\ run = Started /\ pc = Idle /\ round = NotInRound

RunUnchanged ==
    UNCHANGED <<workloadSecretsMap, workloadTracking, secretVersions, objects, vault, now,
                lastRound, held, applied, pc, round>>

\* the external cancellation signal
Cancel ==
    /\ ~run.ctxDone
    /\ run' = [run EXCEPT !.ctxDone = TRUE]
    /\ RunUnchanged

\* an informer has filled its cache with its first list: its HasSynced turns true
InformerSynced ==
    \E kind \in Kinds \ run.synced :
        /\ run' = [run EXCEPT !.synced = @ \cup {kind}]
        /\ RunUnchanged

\* the HasSynced functions NewController keeps in the controller's three fields
deploymentsSynced == "Deployment" \in run.synced
daemonSetsSynced == "DaemonSet" \in run.synced
statefulSetsSynced == "Deployment" \in run.synced

\* cache.WaitForCacheSync returns true; Run launches the reloader loop
CachesSynced ==
    /\ run.pc = "syncing"
    /\ deploymentsSynced /\ daemonSetsSynced /\ statefulSetsSynced
    /\ run' = [run EXCEPT !.pc = "serving", !.loop = "check"]
    /\ RunUnchanged

\* cache.WaitForCacheSync returns false: the context ended first
CachesNotSynced ==
    /\ run.pc = "syncing" /\ run.ctxDone
    /\ run' = [run EXCEPT !.pc = "returned", !.err = "failed to wait for caches to sync"]
    /\ RunUnchanged

\* <-ctx.Done() ; return nil
RunReturns ==
    /\ run.pc = "serving" /\ run.ctxDone
    /\ run' = [run EXCEPT !.pc = "returned", !.err = "nil"]
    /\ RunUnchanged

\* the loop looks at the context before it calls the function
LoopCheck ==
    /\ run.pc = "serving" /\ run.loop = "check"
    /\ run' = [run EXCEPT !.loop = IF run.ctxDone THEN "stopped" ELSE "call"]
    /\ RunUnchanged

\* the loop calls c.runReloader, every read answered
LoopCall ==
    /\ run.pc = "serving" /\ run.loop = "call"
    /\ runReloaderWith({"ok"}) /\ UNCHANGED applied
    /\ run' = [run EXCEPT !.loop = "wait",
                          !.startedAfterDone = run.startedAfterDone \/ run.ctxDone,
                          !.roundBeforeSync = run.roundBeforeSync \/ run.synced # Kinds]

\* the loop waits for the period to pass or for the context to end
LoopWait ==
    /\ run.pc = "serving" /\ run.loop = "wait"
    /\ \E next \in (IF run.ctxDone THEN {"stopped", "check"} ELSE {"check"}) :
           run' = [run EXCEPT !.loop = next]
    /\ RunUnchanged

NextRun ==
    \/ Cancel \/ InformerSynced \/ CachesSynced \/ CachesNotSynced \/ RunReturns
    \/ LoopCheck \/ LoopCall \/ LoopWait
    \/ HandleObjectKV \/ VaultWriteA

SpecRun == InitRun /\ [][NextRun]_vars

\* runReloader taken step by step: one goroutine per tracked path in Phase A,
\* one per marked workload in Phase C, the informers and the backend going on
\* meanwhile
Tasks == KVPaths
InitSteps ==
    /\ Constructed /\ applied = NotApplied /\ run = Serving /\ round = NotInRound
    /\ pc = [t \in Tasks |-> "idle"]

StepUnchanged ==
    UNCHANGED <<workloadTracking, objects, vault, now, lastRound, held, applied, run>>

\* var mu sync.Mutex: held by the task between mu.Lock() and the deferred mu.Unlock()
muNeverLocked == FALSE
muLocked == \E t \in DOMAIN pc : pc[t] = "locked"

\* wg.Wait() of Phase A returns once every task has called wg.Done()
phaseAUnwaited == TRUE
phaseAFinished == \A t \in DOMAIN pc : pc[t] = "done"

\* go wait.UntilWithContext(ctx, c.runReloader, reloaderPeriod): one goroutine
\* calls c.runReloader, and waits for the period once the call has returned
timerCallsAnyway == TRUE
previousCallReturned == round.phase = "idle"

\* the checks at the top, the snapshot, and the go statements of Phase A
RoundBegins ==
    /\ previousCallReturned
    /\ DOMAIN Contents(GetWorkloadSecretsMap(workloadSecretsMap)) # {}
    /\ \E initOK \in BOOLEAN :
           IF ~initOK THEN UNCHANGED <<round, pc>>
           ELSE /\ round' = [phase |-> "A",
                             secretWorkloads |-> GetSecretWorkloadsMapByPath(workloadSecretsMap),
                             workloadsToReload |-> {}, newSecretVersions |-> EmptyMap,
                             currentVersion |-> EmptyMap, seen |-> EmptyMap,
                             changed |-> {}, pending |-> {}, reloaded |-> {}]
                /\ pc' = [t \in Tasks |->
                            IF t \in versionCheckedKeys(workloadSecretsMap) THEN "read"
                            ELSE "done"]
    /\ UNCHANGED <<workloadSecretsMap, secretVersions>> /\ StepUnchanged

\* currentVersion, err := getSecretVersionFromVault(...); on an error the task returns
TaskRead ==
    \E t \in Tasks, outcome \in ReadOutcomes :
        LET read == getSecretVersionFromVault(t, outcome)
        IN  /\ pc[t] = "read"
            /\ IF read.err
               THEN pc' = [pc EXCEPT ![t] = "done"] /\ UNCHANGED round
               ELSE /\ pc' = [pc EXCEPT ![t] = "lock"]
                    /\ round' = [round EXCEPT
                                   !.currentVersion = MapPut(@, t, read.version)]
            /\ UNCHANGED <<workloadSecretsMap, secretVersions>> /\ StepUnchanged

\* mu.Lock(); from here the task works on the two maps as it finds them
TaskLock ==
    \E t \in Tasks :
        /\ pc[t] = "lock" /\ ~muLocked
        /\ pc' = [pc EXCEPT ![t] = "locked"]
        /\ round' = [round EXCEPT
                       !.seen = MapPut(@, t, [workloadsToReload |-> round.workloadsToReload,
                                              newSecretVersions |-> round.newSecretVersions])]
        /\ UNCHANGED <<workloadSecretsMap, secretVersions>> /\ StepUnchanged

\* the switch (with the write of a changed version into the index),
\* newSecretVersions[secretPath] = currentVersion, mu.Unlock(), wg.Done()
TaskUnlock ==
    \E t \in Tasks :
        LET currentVersion == round.currentVersion[t]
            changed == recordedVersion(secretVersions, t) \notin {0, currentVersion}
        IN  /\ pc[t] = "locked"
            /\ pc' = [pc EXCEPT ![t] = "done"]
            /\ round' = [round EXCEPT
                           !.workloadsToReload =
                               round.seen[t].workloadsToReload
                                   \cup (IF changed THEN DOMAIN round.secretWorkloads[t] ELSE {}),
                           !.newSecretVersions =
                               MapPut(round.seen[t].newSecretVersions, t, currentVersion),
                           !.changed = IF changed THEN @ \cup {t} ELSE @]
            /\ workloadSecretsMap' =
                   kvVersionsWritten(workloadSecretsMap, round.secretWorkloads,
                                     IF changed THEN {t} ELSE {}, round.currentVersion)
            /\ UNCHANGED secretVersions /\ StepUnchanged

\* wg.Wait() returns; the go statements of Phase C
PhaseCBegins ==
    /\ round.phase = "A" /\ phaseAFinished
    /\ round' = [round EXCEPT !.phase = "C", !.pending = round.workloadsToReload]
    /\ UNCHANGED <<workloadSecretsMap, secretVersions, pc>> /\ StepUnchanged

\* c.reloadWorkload in its goroutine, succeeding or not
ReloadWorkload ==
    \E w \in Workloads :
        /\ round.phase = "C" /\ w \in round.pending
        /\ round' = [round EXCEPT !.pending = @ \ {w}, !.reloaded = @ \cup {w}]
        /\ UNCHANGED <<workloadSecretsMap, secretVersions, pc>> /\ StepUnchanged

\* wg.Wait() returns; c.secretVersions = newSecretVersions
RoundEnds ==
    /\ round.phase = "C" /\ round.pending = {} /\ phaseAFinished
    /\ secretVersions' = round.newSecretVersions
    /\ round' = NotInRound
    /\ pc' = [t \in Tasks |-> "idle"]
    /\ UNCHANGED workloadSecretsMap /\ StepUnchanged

NextSteps ==
    \/ RoundBegins \/ TaskRead \/ TaskLock \/ TaskUnlock
    \/ PhaseCBegins \/ ReloadWorkload \/ RoundEnds
    \/ HandleObjectKV \/ VaultWrite

SpecSteps == InitSteps /\ [][NextSteps]_vars

\* collectSecrets and collectSecretsFromAnnotations called on their own, on pod
\* templates with at most MaxEnvVars env values and the two annotations
EnvValues ==
    { <<VaultPrefix, "a", Hash, "f">>,
      <<VaultPrefix, "b", Hash, "f">>,
      <<VaultPrefix, "a", Hash, "f", Hash, "1">>,
      <<VaultPrefix, "b", Hash, "f", Hash, NineRun>>,
      <<VaultPrefix, "b", Hash, "f", VaultPrefix, "a", Hash, "f">>,
      <<"a">> }
AnnotationValues ==
    { <<>>,
      <<VaultPrefix, "d", Hash, "f">>,
      <<VaultPrefix, "a", Hash, "f", Hash, "1">>,
      <<VaultPrefix, "d", Hash, "f", Comma, VaultPrefix, "a", Hash, "f">> }
PodTemplates ==
    {[optIn |-> TRUE, env |-> e, fromPath |-> p, deprecated |-> d] :
        e \in UNION {[1..n -> EnvValues] : n \in 0..MaxEnvVars},
        p \in AnnotationValues, d \in AnnotationValues}

InitTemplate ==
    /\ Constructed /\ run = Serving /\ pc = Idle /\ round = NotInRound
    /\ applied \in {[done |-> FALSE, fn |-> "template", in |-> t] : t \in PodTemplates}

CollectSecrets ==
    /\ applied.fn = "template" /\ ~applied.done
    /\ applied' = [done |-> TRUE, fn |-> "collectSecrets", in |-> applied.in,
                   out |-> collectSecrets(applied.in)]
    /\ UNCHANGED <<workloadSecretsMap, workloadTracking, secretVersions, objects, vault, now,
                   lastRound, held, run, pc, round>>

CollectSecretsFromBothAnnotations ==
    /\ applied.fn = "template" /\ ~applied.done
    /\ applied' = [done |-> TRUE, fn |-> "collectSecretsFromAnnotations", in |-> applied.in,
                   out |-> collectSecretsFromAnnotations(applied.in.fromPath,
                                                         applied.in.deprecated)]
    /\ UNCHANGED <<workloadSecretsMap, workloadTracking, secretVersions, objects, vault, now,
                   lastRound, held, run, pc, round>>

NextTemplate == CollectSecrets \/ CollectSecretsFromBothAnnotations

SpecTemplate == InitTemplate /\ [][NextTemplate]_vars

\* A workload whose references move between a KV secret, a dynamic secret and
\* both, each add/update event remembered with the reads it made
ReuseTemplates == {"useA", "useD", "useAD"}

CollectWorkloadSecrets ==
    \E workload \in TTLWorkloads, t \in ReuseTemplates, initOK \in BOOLEAN :
        \E outcome \in (IF initOK THEN [TemplatePaths(t) -> CollectOutcomes]
                                  ELSE {[p \in TemplatePaths(t) |-> "error"]}) :
            \E lease \in LeaseTTLs :
                LET existingMetadata == MapGet(workloadSecretsMap, workload, <<>>)
                IN  /\ objects' = [objects EXCEPT ![workload] = t]
                    /\ collectWorkloadSecrets(workload, t, initOK, outcome, lease)
                    /\ applied' =
                         [done |-> TRUE, fn |-> "collectWorkloadSecrets",
                          workload |-> workload, initOK |-> initOK,
                          paths |-> collectedSecrets[t], existing |-> existingMetadata,
                          outcome |-> outcome, lease |-> lease, vault |-> vault,
                          calls |-> IF initOK
                                    THEN getSecretInfoCalls(collectedSecrets[t], existingMetadata)
                                    ELSE <<>>,
                          out |-> MapGet(workloadSecretsMap', workload, <<>>)]
                    /\ lastRound' = NoRound
                    /\ UNCHANGED <<secretVersions, vault, now, held, run, pc, round>>

NextReuse == CollectWorkloadSecrets \/ VaultWriteA

SpecReuse == Init /\ [][NextReuse]_vars

\* getSecretInfoFromVault called on its own, on every answer a Read can give
Responses ==
    {BackendError(<<e>>) : e \in {"e1", "e2"}} \cup {NilSecret}
        \cup {Secret(l, d, r, m, v) :
                l \in {"", "lease-1"}, d \in {0} \cup LeaseTTLs, r \in BOOLEAN,
                m \in {"absent", "noversion", "fraction", "version"}, v \in 1..MaxVersion}

InitAdapter ==
    /\ Constructed /\ run = Serving /\ pc = Idle /\ round = NotInRound
    /\ applied \in {[done |-> FALSE, fn |-> "response", path |-> p, in |-> r] :
                      p \in KVPaths \cup DynamicPaths, r \in Responses}

GetSecretInfoFromVault ==
    /\ applied.fn = "response" /\ ~applied.done
    /\ applied' = [done |-> TRUE, fn |-> "getSecretInfoFromVault", path |-> applied.path,
                   in |-> applied.in, out |-> getSecretInfo(applied.path, applied.in)]
    /\ UNCHANGED <<workloadSecretsMap, workloadTracking, secretVersions, objects, vault, now,
                   lastRound, held, run, pc, round>>

NextAdapter == GetSecretInfoFromVault

SpecAdapter == InitAdapter /\ [][NextAdapter]_vars

\* trackWorkloadRestartTime on a workload stored with KV and dynamic refs in
\* either order, each call remembered with the pods it was given
PathE == <<"e">>
TrackedMetadata ==
    {KVMeta(PathA, 1), DynamicMeta(PathD, ThresholdDen + 1), DynamicMeta(PathE, ThresholdDen)}
\* lists as collectWorkloadSecrets builds them: no path twice
TrackedLists ==
    {l \in UNION {[1..n -> TrackedMetadata] : n \in 0..MaxRefs} :
        \A i, j \in DOMAIN l : i # j => l[i].Path # l[j].Path}

StoreTracked ==
    \E workload \in TTLWorkloads, secrets \in TrackedLists :
        /\ workloadSecretsMap' = Store(workloadSecretsMap, workload, secrets)
        /\ UNCHANGED <<workloadTracking, secretVersions, objects, vault, now, lastRound, held,
                       applied, run, pc, round>>

TrackRecorded ==
    \E workload \in TTLWorkloads, pods \in PodLists :
        /\ trackWorkloadRestartTime(workload, pods)
        /\ applied' =
             [done |-> TRUE, fn |-> "trackWorkloadRestartTime", workload |-> workload,
              pods |-> pods,
              indexed |-> workload \in DOMAIN workloadSecretsMap,
              ttls |-> {m.DynamicLeaseTTL :
                          m \in {x \in Range(MapGet(workloadSecretsMap, workload, <<>>)) :
                                   x.IsDynamic}},
              tracked |-> workload \in DOMAIN workloadTracking]

NextTrack == StoreTracked \/ TrackRecorded \/ Tick

SpecTrack == Init /\ [][NextTrack]_vars

\* Rounds over one workload with reads that fail, each round remembered
\* with what was recorded before it and with the version last read for each
\* checked path in this or an earlier round
NothingObserved == [done |-> FALSE, fn |-> "runReloader", lastObserved |-> EmptyMap]

InitRetry == Constructed /\ applied = NothingObserved /\ run = Serving /\ pc = Idle /\ round = NotInRound

RunReloaderRemembered ==
    LET keys == versionCheckedKeys(workloadSecretsMap)
    IN  /\ runReloaderWith(ReadOutcomes) /\ UNCHANGED run
        /\ applied' =
             IF ~lastRound'.ran THEN applied
             ELSE [done |-> TRUE, fn |-> "runReloader",
                   recordedBefore |-> secretVersions,
                   observedBefore |-> applied.lastObserved,
                   lastObserved |->
                       [p \in keys \cap (DOMAIN applied.lastObserved \cup DOMAIN secretVersions') |->
                           IF p \in DOMAIN secretVersions' THEN secretVersions'[p]
                           ELSE applied.lastObserved[p]]]

HandleObjectRetry ==
    \E t \in RoundTemplates :
        handleObject("w1", t, TRUE, [p \in TemplatePaths(t) |-> "ok"], ThresholdDen)

NextRetry == HandleObjectRetry \/ VaultWrite \/ RunReloaderRemembered

SpecRetry == InitRetry /\ [][NextRetry]_vars

\* The store used directly: secret lists of at most MaxRefs entries
Metadata == {KVMeta(PathA, 1), DynamicMeta(PathD, ThresholdDen)}
SecretLists == UNION {[1..n -> Metadata] : n \in 0..MaxRefs}

StoreOp ==
    \E workload \in Workloads, secrets \in SecretLists :
        /\ workloadSecretsMap' = Store(workloadSecretsMap, workload, secrets)
        /\ UNCHANGED <<workloadTracking, secretVersions, objects, vault, now, lastRound, held, applied, run, pc, round>>

DeleteOp ==
    \E workload \in Workloads :
        /\ workloadSecretsMap' = Delete(workloadSecretsMap, workload)
        /\ UNCHANGED <<workloadTracking, secretVersions, objects, vault, now, lastRound, held, applied, run, pc, round>>

GetOp ==
    /\ held' = GetWorkloadSecretsMap(workloadSecretsMap)
    /\ UNCHANGED <<workloadSecretsMap, workloadTracking, secretVersions, objects, vault, now,
                   lastRound, applied, run, pc, round>>

NextIndex == StoreOp \/ DeleteOp \/ GetOp

SpecIndex == Init /\ [][NextIndex]_vars

\* The calls on the index step by step, made by the informers' goroutines and
\* by the reloader loop.  A goroutine holds a lock from the step that enters a
\* position to the step that leaves it.
Informers == Goroutines \ {"reloader"}
\* workloadSecrets.RWMutex: taken by Store and Delete, w.Lock()
indexLocked == \E g \in Goroutines : pc[g] \in {"Store", "Delete"}
\* Controller.trackingMutex: Lock() in trackWorkloadRestartTime, RLock() in collectWorkloadSecrets
trackingLocked == \E g \in Goroutines : pc[g] = "trackWorkloadRestartTime"
trackingRLocked == \E g \in Goroutines : pc[g] = "collectWorkloadSecrets"

enter(g, position) ==
    /\ pc[g] = "idle"
    /\ pc' = [pc EXCEPT ![g] = position]
    /\ UNCHANGED <<workloadSecretsMap, workloadTracking, secretVersions, objects, vault, now,
                   lastRound, held, applied, run, round>>
leave(g, position) ==
    /\ pc[g] = position
    /\ pc' = [pc EXCEPT ![g] = "idle"]
    /\ UNCHANGED <<workloadTracking, secretVersions, objects, vault, now,
                   lastRound, held, applied, run, round>>

StoreLock == \E g \in Informers : ~indexLocked /\ enter(g, "Store")
StoreUnlock ==
    \E g \in Informers, workload \in Workloads, secrets \in SecretLists :
        /\ leave(g, "Store")
        /\ workloadSecretsMap' = Store(workloadSecretsMap, workload, secrets)
DeleteLock == \E g \in Informers : ~indexLocked /\ enter(g, "Delete")
DeleteUnlock ==
    \E g \in Informers, workload \in Workloads :
        /\ leave(g, "Delete")
        /\ workloadSecretsMap' = Delete(workloadSecretsMap, workload)
\* existingMetadata, hasExisting := c.workloadSecrets.GetWorkloadSecretsMap()[workload]
LookupRLock == \E g \in Informers : ~trackingLocked /\ enter(g, "collectWorkloadSecrets")
LookupRUnlock ==
    \E g \in Informers : leave(g, "collectWorkloadSecrets") /\ UNCHANGED workloadSecretsMap
\* workloadSecretsMeta, exists := c.workloadSecrets.GetWorkloadSecretsMap()[workload]
TrackLock ==
    \E g \in Informers :
        ~trackingLocked /\ ~trackingRLocked /\ enter(g, "trackWorkloadRestartTime")
TrackUnlock ==
    \E g \in Informers : leave(g, "trackWorkloadRestartTime") /\ UNCHANGED workloadSecretsMap
\* len(c.workloadSecrets.GetWorkloadSecretsMap()) == 0
EmptinessCheck == \E g \in {"reloader"} : enter(g, "runReloader")
EmptinessChecked ==
    \E g \in {"reloader"} : leave(g, "runReloader") /\ UNCHANGED workloadSecretsMap

NextLock ==
    \/ StoreLock \/ StoreUnlock \/ DeleteLock \/ DeleteUnlock
    \/ LookupRLock \/ LookupRUnlock \/ TrackLock \/ TrackUnlock
    \/ EmptinessCheck \/ EmptinessChecked

SpecLock == Init /\ [][NextLock]_vars


---------------------------------------------------------------------------
(* The reloader's decisions *)

\* The workloads whose stored list holds an entry for path p
IndexedUnder(p) ==
    {w \in DOMAIN workloadSecretsMap :
        \E i \in DOMAIN workloadSecretsMap[w] : workloadSecretsMap[w][i].Path = p}

\* The paths the last round read and found at a version other than the recorded one
ObservedChanged == lastRound.differs \ lastRound.failed

\* No tracked workload had reached its TTL threshold when the last round ran
NoTTLDue == \A w \in DOMAIN lastRound.tracking : ~ttlThresholdReached(lastRound.tracking[w], now)

C2_UnchangedVersionsNoRollout ==
    lastRound.ran /\ lastRound.afterCleanRound /\ lastRound.failed = {} /\ NoTTLDue =>
        DOMAIN lastRound.calls = {}

\* The second of two such rounds, over an index holding both workloads
C2_Witness ==
    /\ lastRound.ran /\ lastRound.afterCleanRound /\ lastRound.failed = {} /\ NoTTLDue
    /\ DOMAIN workloadSecretsMap = Workloads
    /\ DOMAIN secretVersions = KVPaths
    /\ DOMAIN lastRound.calls = {}

\* C3: in one round every workload is rolled out at most once, however many of
\* its secrets changed.
C3_AtMostOneRolloutPerRound ==
    lastRound.ran => \A w \in DOMAIN lastRound.calls : lastRound.calls[w] <= 1

\* A round saw both secrets of w2 changed and rolled w2 out
C3_Witness ==
    /\ lastRound.ran
    /\ ObservedChanged = {PathA, PathB}
    /\ "w2" \in IndexedUnder(PathA) \cap IndexedUnder(PathB)
    /\ "w2" \in DOMAIN lastRound.calls
    /\ lastRound.calls["w2"] = 1

---------------------------------------------------------------------------
(* The collector's upkeep of the index *)

\* The paths workload w is stored with in m
PathsOf(m, w) == IF w \in DOMAIN m THEN {m[w][i].Path : i \in DOMAIN m[w]} ELSE {}

\* C4: a workload whose latest object lacks the opt-in annotation is not in
\* the index, and no round rolls it out.
C4_AnnotationLostIsRemoved ==
    \A w \in Workloads :
        objects[w] # NoObject /\ ~Templates[objects[w]].optIn =>
            /\ w \notin DOMAIN workloadSecretsMap
            /\ lastRound.ran => w \notin DOMAIN lastRound.calls

\* C5: a workload whose object was deleted is in no snapshot of the index,
\* neither by workload nor by secret.
C5_DeletedIsInNoSnapshot ==
    \A w \in Workloads :
        objects[w] = NoObject =>
            /\ w \notin DOMAIN Contents(GetWorkloadSecretsMap(workloadSecretsMap))
            /\ \A sm \in DOMAIN GetSecretWorkloadsMap(workloadSecretsMap) :
                   w \notin DOMAIN GetSecretWorkloadsMap(workloadSecretsMap)[sm]

\* C6: an opted-in workload whose latest pod template yields no unversioned
\* reference is neither in the by-workload index nor in the tracking map.
C6_NoReferencesIsRemoved ==
    \A w \in Workloads :
        /\ objects[w] # NoObject
        /\ Templates[objects[w]].optIn
        /\ collectSecrets(Templates[objects[w]]) = <<>>
        => w \notin DOMAIN workloadSecretsMap /\ w \notin DOMAIN workloadTracking

\* An env value of the form vault:<path>#<field>#<digits>
isPinnedReference(value) ==
    /\ Len(value) >= 6
    /\ value[1] = VaultPrefix /\ value[3] = Hash /\ value[5] = Hash
    /\ {value[2], value[4]} \cap {VaultPrefix, Hash, Comma} = {}
    /\ \A i \in 6..Len(value) : value[i] \in DigitTokens

\* The paths pod template t refers to, and those it refers to unpinned
ReferencedPaths(t) == {<<Templates[t].env[i][2]>> : i \in DOMAIN Templates[t].env}
UnpinnedPaths(t) ==
    {<<Templates[t].env[i][2]>> :
        i \in {j \in DOMAIN Templates[t].env : ~isPinnedReference(Templates[t].env[j])}}

\* C7: no step adds to a workload's stored list a path that the workload's
\* pod template refers to in pinned references only.
C7_PinnedReferenceNeverIndexed ==
    [][\A w \in Workloads :
          objects'[w] # NoObject =>
              \A p \in ReferencedPaths(objects'[w]) \ UnpinnedPaths(objects'[w]) :
                  p \notin PathsOf(workloadSecretsMap, w) =>
                      p \notin PathsOf(workloadSecretsMap', w)]_vars

---------------------------------------------------------------------------
(* The store's two views *)

\* How often secret sm occurs in the list stored for workload w
Occurrences(w, sm) ==
    IF w \in DOMAIN workloadSecretsMap
    THEN Cardinality({i \in DOMAIN workloadSecretsMap[w] : workloadSecretsMap[w][i] = sm})
    ELSE 0

\* C8: the by-secret view lists workload w under secret sm exactly as often as
\* sm occurs in the list stored for w, and has no entry for a secret in no list.
C8_BySecretIsInverse ==
    LET secretWorkloads == GetSecretWorkloadsMap(workloadSecretsMap)
    IN  /\ DOMAIN secretWorkloads = {sm \in Metadata : \E w \in Workloads : Occurrences(w, sm) > 0}
        /\ \A sm \in DOMAIN secretWorkloads : \A w \in Workloads :
               MapGet(secretWorkloads[sm], w, 0) = Occurrences(w, sm)

\* w1 is stored with two secrets and w2 with one of them, so that this secret
\* lists both workloads; w2 was stored after a GetWorkloadSecretsMap that did
\* not have it yet
C8_Witness ==
    /\ DOMAIN workloadSecretsMap = Workloads
    /\ Len(workloadSecretsMap["w1"]) = 2
    /\ PathsOf(workloadSecretsMap, "w1") = {PathA, PathD}
    /\ PathsOf(workloadSecretsMap, "w2") = {PathA}
    /\ held.taken /\ DOMAIN held.atCall = {"w1"}
    /\ DOMAIN GetSecretWorkloadsMap(workloadSecretsMap)[KVMeta(PathA, 1)] = Workloads

\* C9: what GetWorkloadSecretsMap returned still reads as it did at the call.
C9_SnapshotIsOwnedCopy == held.taken => Contents(held) = held.atCall

---------------------------------------------------------------------------
(* The dynamic TTL decision *)

\* C10: in a round that observes no KV change, a workload is rolled out if and
\* only if it is tracked with a shortest dynamic TTL T > 0 and the time since
\* its last restart is at least ThresholdNum / ThresholdDen of T.
C10_TTLThresholdDecides ==
    lastRound.ran /\ ObservedChanged = {} =>
        \A w \in Workloads :
            w \in DOMAIN lastRound.calls <=>
                /\ w \in DOMAIN lastRound.tracking
                /\ lastRound.tracking[w].ShortestDynamicTTL > 0
                /\ (now - lastRound.tracking[w].LastRestartTime) * ThresholdDen
                       >= ThresholdNum * lastRound.tracking[w].ShortestDynamicTTL

\* A round rolled w1 out exactly at the threshold
C10_Witness ==
    /\ lastRound.ran /\ ObservedChanged = {}
    /\ "w1" \in DOMAIN lastRound.tracking
    /\ lastRound.tracking["w1"].ShortestDynamicTTL = ThresholdDen
    /\ now - lastRound.tracking["w1"].LastRestartTime = ThresholdNum
    /\ "w1" \in DOMAIN lastRound.calls

---------------------------------------------------------------------------
(* Rounds with dynamic secrets: precedence, failures, retries *)

\* The tracked workloads that had reached their TTL threshold when the last round ran
WasTTLDue(w) ==
    /\ w \in DOMAIN lastRound.tracking
    /\ lastRound.tracking[w].ShortestDynamicTTL > 0
    /\ (now - lastRound.tracking[w].LastRestartTime) * ThresholdDen
           >= ThresholdNum * lastRound.tracking[w].ShortestDynamicTTL

\* C11: a workload that in one round has both a KV secret observed changed and
\* its TTL threshold reached is rolled out exactly once in that round.
C11_KVChangeAndTTLOneRollout ==
    lastRound.ran =>
        \A w \in Workloads :
            (\E p \in ObservedChanged : w \in IndexedUnder(p)) /\ WasTTLDue(w) =>
                w \in DOMAIN lastRound.calls /\ lastRound.calls[w] = 1

\* A round found PathA changed for w1 while w1's threshold had been reached
C11_Witness ==
    /\ lastRound.ran
    /\ PathA \in ObservedChanged
    /\ "w1" \in IndexedUnder(PathA)
    /\ WasTTLDue("w1")
    /\ lastRound.calls["w1"] = 1

\* The workloads the last round had reason to roll out
WasMarked(w) == (\E p \in ObservedChanged : w \in IndexedUnder(p)) \/ WasTTLDue(w)

\* C12: in a round step, a workload whose rollout fails keeps its
\* lastRestartTime and its entry in the index, and every other marked workload
\* is still rolled out (and stamped with the time of the round when it succeeds).
C12_FailedRolloutIsSkipped ==
    [][lastRound'.ran =>
          \A w \in DOMAIN lastRound'.calls \ lastRound'.succeeded :
              /\ w \in DOMAIN workloadTracking =>
                     /\ w \in DOMAIN workloadTracking'
                     /\ workloadTracking'[w].LastRestartTime = workloadTracking[w].LastRestartTime
              /\ w \in DOMAIN workloadSecretsMap =>
                     /\ w \in DOMAIN workloadSecretsMap'
                     /\ [i \in DOMAIN workloadSecretsMap'[w] |-> workloadSecretsMap'[w][i].Path]
                            = [i \in DOMAIN workloadSecretsMap[w] |-> workloadSecretsMap[w][i].Path]
              /\ \A v \in Workloads \ {w} :
                     WasMarked(v)' =>
                         /\ v \in DOMAIN lastRound'.calls
                         /\ v \in lastRound'.succeeded /\ v \in DOMAIN workloadTracking =>
                                workloadTracking'[v].LastRestartTime = now]_vars

\* A round at a later time marked both tracked workloads; the rollout of w1
\* failed and left its restart time alone, the rollout of w2 succeeded
C12_Witness ==
    /\ lastRound.ran
    /\ DOMAIN lastRound.calls = Workloads
    /\ lastRound.succeeded = {"w2"}
    /\ DOMAIN lastRound.tracking = Workloads
    /\ workloadTracking["w1"].LastRestartTime = lastRound.tracking["w1"].LastRestartTime
    /\ workloadTracking["w1"].LastRestartTime < now
    /\ workloadTracking["w2"].LastRestartTime = now
    /\ "w1" \in DOMAIN workloadSecretsMap

\* C13: when two rounds follow each other, a workload whose rollout failed in
\* the first and that is still in the index is rolled out again in the second.
C13_FailedRolloutIsRetried ==
    [][lastRound.ran /\ lastRound'.ran =>
          \A w \in DOMAIN lastRound.calls \ lastRound.succeeded :
              w \in DOMAIN workloadSecretsMap => w \in DOMAIN lastRound'.calls]_vars

\* C14: a path the backend answers NotFound for marks no workload (every
\* workload rolled out has another reason), the miss being logged as a warning
\* with the ignore-missing flag and as an error without it, and the path is
\* still in the index after the round.
C14_MissingSecretRestartsNothing ==
    lastRound.ran =>
        /\ handleSecretError("notfound", TRUE) = "warn"
        /\ handleSecretError("notfound", FALSE) = "error"
        /\ \A w \in DOMAIN lastRound.calls : WasMarked(w)
        /\ \A p \in lastRound.failed : IndexedUnder(p) # {}

\* PathA was written but answered NotFound: w1, which uses it alone, was not
\* rolled out and is still indexed under it
C14_Witness ==
    /\ lastRound.ran
    /\ PathA \in lastRound.failed /\ PathA \in lastRound.differs
    /\ PathsOf(workloadSecretsMap, "w1") = {PathA}
    /\ "w1" \notin DOMAIN lastRound.calls

\* C15: no round ends in a panic.
C15_NoPanicInRound == lastRound # PanicRound


---------------------------------------------------------------------------
(* The reload count *)

\* the integer a string holds: an optional sign, then one or more digits
holdsInteger(s) ==
    LET digits == IF s # <<>> /\ s[1] \in {"+", "-"} THEN Tail(s) ELSE s
    IN  digits # <<>> /\ \A i \in 1..Len(digits) : IsDigit(digits[i])
integerOf(s) ==
    IF s[1] = "-" THEN -digitsValue(Tail(s))
    ELSE IF s[1] = "+" THEN digitsValue(Tail(s)) ELSE digitsValue(s)

expectedReloadCount(reloadCount) ==
    IF reloadCount # <<>> /\ holdsInteger(reloadCount)
    THEN Itoa(integerOf(reloadCount) + 1)
    ELSE <<"1">>

\* C16: incrementReloadCountAnnotation sets the reload count to "1" when it is
\* absent, empty or not an integer, to the decimal string of n+1 when it holds
\* the integer n, and leaves every other annotation as it was.
C16_ReloadCountIsIncremented ==
    (applied.fn = "incrementReloadCountAnnotation" /\ applied.done) =>
        LET before == applied.in
            after == applied.out.annotations
        IN  /\ ~applied.out.panic
            /\ ~after.isNil
            /\ DOMAIN after.entries = DOMAIN before.entries \cup {ReloadCountAnnotationName}
            /\ after.entries[ReloadCountAnnotationName]
                   = expectedReloadCount(GetAnnotation(before, ReloadCountAnnotationName))
            /\ \A name \in DOMAIN before.entries \ {ReloadCountAnnotationName} :
                   after.entries[name] = before.entries[name]


---------------------------------------------------------------------------
(* Annotations and the parser *)

\* the entries of an annotation value that are not empty
EntriesOf(value) == {e \in Range(Split(value, Comma)) : e # <<>>}

\* C17: of the comma-separated entries of the vault-from-path annotation,
\* exactly those without '#' are collected, each as the path it spells.
C17_AnnotationEntriesAreBarePaths ==
    (applied.fn = "collectSecretsFromAnnotations" /\ applied.done) =>
        Range(applied.out) = {e \in EntriesOf(applied.in) : Hash \notin Range(e)}


\* the vault:-anchored segments of a value: from behind each anchor up to the
\* next anchor or the end of the value
Anchors(value) == {i \in DOMAIN value : value[i] = VaultPrefix}
SegmentAt(value, i) ==
    LET later == {j \in Anchors(value) : j > i}
    IN  SubSeq(value, i + 1, IF later = {} THEN Len(value) ELSE Min(later) - 1)
PathOfSegment(segment) == Split(segment, Hash)[1]
\* the anchors of the segments that have a '#' and a path, left to right
EmittedAnchors(value) ==
    Ascending({i \in Anchors(value) :
                 /\ Hash \in Range(SegmentAt(value, i))
                 /\ PathOfSegment(SegmentAt(value, i)) # <<>>})
\* the '#'-parts of a segment behind its path and field
TrailingPartIsDigits(segment) ==
    LET parts == Split(segment, Hash)
        last == parts[Len(parts)]
    IN  /\ Len(parts) >= 3
        /\ last # <<>>
        /\ \A i \in DOMAIN last : last[i] \in DigitTokens

\* C18: an emitted segment is versioned exactly when its last '#'-part, behind
\* the path and the field, is non-empty and all digits.
C18_VersionedIffTrailingDigits ==
    (applied.fn = "extractVaultSecretSegments" /\ applied.done) =>
        LET emitted == EmittedAnchors(applied.in)
        IN  \A k \in DOMAIN applied.out \cap DOMAIN emitted :
                applied.out[k].IsVersioned
                    <=> TrailingPartIsDigits(SegmentAt(applied.in, emitted[k]))

\* C19: the parser emits one segment for each anchored segment that has a '#'
\* and a non-empty path, in order of occurrence and with repetitions, and
\* nothing else.
C19_EmitsEachSegmentInOrder ==
    (applied.fn = "extractVaultSecretSegments" /\ applied.done) =>
        LET emitted == EmittedAnchors(applied.in)
        IN  /\ Len(applied.out) = Len(emitted)
            /\ \A k \in DOMAIN emitted :
                   applied.out[k].Path = PathOfSegment(SegmentAt(applied.in, emitted[k]))

C19_Witness ==
    /\ applied.fn = "extractVaultSecretSegments" /\ applied.done
    /\ applied.in = <<VaultPrefix, "a", Hash, VaultPrefix, "a", Hash>>
    /\ Len(applied.out) = 2
    /\ applied.out[1] = applied.out[2]


---------------------------------------------------------------------------
(* Cancellation *)

\* C20: once the context has ended, no round is started, and Run returns no error.
C20_CancelStopsRoundsAndReturnsNil ==
    /\ ~run.startedAfterDone
    /\ run.pc = "returned" => run.err = "nil"


---------------------------------------------------------------------------
(* Locks *)

readsIndexMap == {"collectWorkloadSecrets", "trackWorkloadRestartTime", "runReloader"}
writesIndexMap == {"Store", "Delete"}

\* C21: no goroutine reads the index map while another one is inside Store or
\* Delete.
C21_IndexReadsExcludeWrites ==
    \A g, h \in Goroutines :
        ~(pc[g] \in readsIndexMap /\ pc[h] \in writesIndexMap)


---------------------------------------------------------------------------
(* The phases of a round *)

InRound == round.phase \in {"A", "C"}
FinishedTasks == {t \in DOMAIN pc : pc[t] = "done"}

\* C22: at most one Phase A task is between mu.Lock() and mu.Unlock(), and what
\* the finished tasks wrote is all there: the version each one read, and the
\* workloads of each path it found changed.
C22_PhaseAWritesUnderMutex ==
    InRound =>
        /\ Cardinality({t \in DOMAIN pc : pc[t] = "locked"}) <= 1
        /\ \A t \in FinishedTasks \cap DOMAIN round.currentVersion :
               /\ t \in DOMAIN round.newSecretVersions
               /\ round.newSecretVersions[t] = round.currentVersion[t]
        /\ \A t \in FinishedTasks \cap round.changed :
               DOMAIN round.secretWorkloads[t] \subseteq round.workloadsToReload

\* two tasks have written, one of them a mark
C22_Witness ==
    /\ InRound
    /\ DOMAIN round.newSecretVersions = {PathA, PathB}
    /\ round.changed = {PathA}
    /\ FinishedTasks = Tasks

\* C23: while a Phase A task has not finished, Phase C has not begun and no
\* workload has been rolled out.
C23_PhaseCAfterPhaseA ==
    (InRound /\ FinishedTasks # Tasks) =>
        /\ round.phase = "A"
        /\ round.pending = {} /\ round.reloaded = {}

\* a rollout has been made in a round that checked two paths
C23_Witness ==
    /\ round.phase = "C"
    /\ round.reloaded # {}
    /\ DOMAIN round.currentVersion = {PathA, PathB}


---------------------------------------------------------------------------
(* Errors in a round *)

\* C24: in a round in which some read failed, every other tracked path was
\* still read and its version recorded, and the workloads of every path seen
\* changed were rolled out.
C24_ReadErrorSkipsOnlyItsPath ==
    (lastRound.ran /\ lastRound.failed # {}) =>
        /\ \A p \in KVPaths \ lastRound.failed :
               IndexedUnder(p) # {} =>
                   p \in DOMAIN secretVersions /\ secretVersions[p] = vault[p]
        /\ \A p \in ObservedChanged : IndexedUnder(p) \subseteq DOMAIN lastRound.calls

\* the read of PathB failed; PathA had changed and w2, which uses both, was rolled out
C24_Witness ==
    /\ lastRound.ran
    /\ lastRound.failed = {PathB}
    /\ PathA \in ObservedChanged
    /\ "w2" \in IndexedUnder(PathB)
    /\ "w2" \in DOMAIN lastRound.calls
    /\ secretVersions[PathA] = vault[PathA]


\* C25: a round in which initVaultClient fails makes no read and no rollout,
\* and leaves the index, the tracking map and the recorded versions as they were.
C25_ClientErrorChangesNothing ==
    [][lastRound'.initErr =>
           /\ ~lastRound'.ran
           /\ UNCHANGED <<workloadSecretsMap, workloadTracking, secretVersions>>]_vars

\* such a round, while PathA is recorded at a version the backend has moved on from
C25_Witness ==
    /\ lastRound = ClientError
    /\ PathA \in DOMAIN secretVersions
    /\ secretVersions[PathA] # vault[PathA]
    /\ IndexedUnder(PathA) # {}


\* C26: after a round that got past the health check, every path with a
\* recorded version is a path of the index the round took its snapshot of.
C26_VersionsOnlyOfIndexedPaths ==
    lastRound.ran => \A p \in DOMAIN secretVersions : IndexedUnder(p) # {}

\* PathB had a recorded version, no workload uses it any more, and the round dropped it
C26_Witness ==
    /\ lastRound.ran
    /\ lastRound.dropped = {PathB}
    /\ IndexedUnder(PathB) = {}
    /\ DOMAIN secretVersions = {PathA}


\* C27: no round has started while the cache of one of the three kinds was
\* not yet synced.
C27_NoRoundBeforeCachesSynced == ~run.roundBeforeSync


---------------------------------------------------------------------------
(* The references of a pod template *)

\* the paths of a value's segments that have a '#', a path, and no trailing digits
UnversionedPathsOf(value) ==
    LET emitted == EmittedAnchors(value)
    IN  {PathOfSegment(SegmentAt(value, emitted[k])) :
            k \in {j \in DOMAIN emitted :
                     ~TrailingPartIsDigits(SegmentAt(value, emitted[j]))}}
\* the recognized annotation: the primary one, the alias when that is empty
RecognizedAnnotation(template) ==
    IF template.fromPath # <<>> THEN template.fromPath ELSE template.deprecated
ExpectedPaths(template) ==
    UNION {UnversionedPathsOf(template.env[i]) : i \in DOMAIN template.env}
        \cup UNION {UnversionedPathsOf(e) :
                      e \in Range(Split(RecognizedAnnotation(template), Comma))}

\* C28: collectSecrets returns the unversioned paths of the env values and of
\* the recognized annotation, in ascending order, each one once.
C28_CollectSecretsSortedUnique ==
    (applied.fn = "collectSecrets" /\ applied.done) =>
        /\ Range(applied.out) = ExpectedPaths(applied.in)
        /\ \A i, j \in DOMAIN applied.out : i < j => StrLess(applied.out[i], applied.out[j])

\* C29: with a non-empty primary annotation the alias contributes nothing: the
\* result is the one the primary annotation gives alone.
C29_AliasOnlyWithoutPrimary ==
    (applied.fn = "collectSecretsFromAnnotations" /\ applied.done
         /\ applied.in.fromPath # <<>>) =>
        applied.out = collectSecretsFromAnnotations(applied.in.fromPath, <<>>)


\* the entries of a metadata list that carry the given path
EntriesWithPath(metadata, path) == {metadata[i] : i \in {j \in DOMAIN metadata : metadata[j].Path = path}}
StoredDynamic(path) == {m \in EntriesWithPath(applied.existing, path) : m.IsDynamic}
Classified(path) ==
    IF path \in DynamicPaths THEN DynamicMeta(path, applied.lease)
    ELSE KVMeta(path, applied.vault[path])

\* C30: on an add/update of a workload, a path already stored for it as a
\* dynamic ref keeps its stored entry and is not read; every other path, new or
\* stored as KV, is read and, when the read succeeds, stored as classified.
C30_DynamicReusedOthersRead ==
    (applied.fn = "collectWorkloadSecrets" /\ applied.initOK) =>
        \A p \in Range(applied.paths) :
            IF StoredDynamic(p) # {}
            THEN /\ p \notin Range(applied.calls)
                 /\ EntriesWithPath(applied.out, p) = StoredDynamic(p)
            ELSE /\ p \in Range(applied.calls)
                 /\ applied.outcome[p] = "ok" => EntriesWithPath(applied.out, p) = {Classified(p)}
\* an update that reuses the dynamic ref, whose lease the backend would now
\* report differently, and re-reads the KV path stored at an older version
C30_Witness ==
    /\ applied.fn = "collectWorkloadSecrets" /\ applied.initOK
    /\ applied.existing = <<KVMeta(PathA, 1), DynamicMeta(PathD, ThresholdDen)>>
    /\ applied.lease = ThresholdDen + 1
    /\ applied.calls = <<PathA>>
    /\ applied.out = <<KVMeta(PathA, 2), DynamicMeta(PathD, ThresholdDen)>>


---------------------------------------------------------------------------
(* Errors while collecting *)

\* the paths of the remembered call whose read failed
FailedReads == {p \in Range(applied.calls) : applied.outcome[p] # "ok"}

\* C31: a path whose read or classification fails is left out, and the workload
\* is still stored with the refs of all its other paths.
C31_FailedPathOmittedOthersStored ==
    (applied.fn = "collectWorkloadSecrets" /\ applied.initOK) =>
        /\ applied.workload \in DOMAIN workloadSecretsMap
        /\ workloadSecretsMap[applied.workload] = applied.out
        /\ {m.Path : m \in Range(applied.out)} = Range(applied.paths) \ FailedReads
\* the KV path's read fails, the dynamic path of the same workload is stored
C31_Witness ==
    /\ applied.fn = "collectWorkloadSecrets" /\ applied.initOK
    /\ applied.existing = <<>>
    /\ FailedReads = {PathA}
    /\ workloadSecretsMap[applied.workload] = <<DynamicMeta(PathD, applied.lease)>>


---------------------------------------------------------------------------
(* Classification *)

\* C32: every ref stored in the index has exactly one of IsKV and IsDynamic set.
C32_StoredRefsClassified ==
    \A w \in DOMAIN workloadSecretsMap :
        \A i \in DOMAIN workloadSecretsMap[w] :
            workloadSecretsMap[w][i].IsKV # workloadSecretsMap[w][i].IsDynamic
\* a collect has stored a workload with a KV ref and a dynamic ref
C32_Witness ==
    /\ applied.fn = "collectWorkloadSecrets" /\ applied.initOK
    /\ \E w \in DOMAIN workloadSecretsMap :
          /\ \E i \in DOMAIN workloadSecretsMap[w] : workloadSecretsMap[w][i].IsKV
          /\ \E i \in DOMAIN workloadSecretsMap[w] : workloadSecretsMap[w][i].IsDynamic

\* C33: a backend error is returned as it is; a nil answer is ErrSecretNotFound
\* for the path; an answer with a lease id is dynamic with the lease's id,
\* duration and renewable flag, whatever KV fields it has; any other answer is
\* KV with metadata.version, and an error without metadata or version.
C33_ReadClassification ==
    (applied.fn = "getSecretInfoFromVault" /\ applied.done) =>
        LET secret == applied.in
            info == applied.out
        IN  IF secret.kind = "error" THEN info.err /\ info.error = secret.error
            ELSE IF secret.kind = "nil"
            THEN info.err /\ info.error = <<"ErrSecretNotFound", applied.path>>
            ELSE IF secret.LeaseID # ""
            THEN /\ ~info.err /\ info.IsDynamic /\ ~info.IsKV
                 /\ info.LeaseID = secret.LeaseID
                 /\ info.LeaseDuration = secret.LeaseDuration
                 /\ info.Renewable = secret.Renewable
            ELSE IF secret.metadata \in {"absent", "noversion"} THEN info.err
            ELSE secret.metadata = "version" =>
                     ~info.err /\ info.IsKV /\ ~info.IsDynamic /\ info.Version = secret.version
\* an answer that has a lease id and a KV version is classified dynamic
C33_Witness ==
    /\ applied.fn = "getSecretInfoFromVault" /\ applied.done
    /\ applied.in.kind = "secret" /\ applied.in.LeaseID # ""
    /\ applied.in.metadata = "version"
    /\ applied.out.IsDynamic /\ applied.out.LeaseDuration = ThresholdDen + 1


---------------------------------------------------------------------------
(* Tracking *)

\* the start times of the pods that are Running, started and not terminating
EligibleStarts(pods) ==
    {pods[i].StartTime : i \in {j \in DOMAIN pods :
        pods[j].Phase = "Running" /\ pods[j].HasStart /\ ~pods[j].Terminating}}

C35_RolloutSetsLastRestart ==
    lastRound.ran =>
        \A w \in lastRound.succeeded \cap DOMAIN workloadTracking :
            workloadTracking[w].LastRestartTime = now
\* a workload tracked since an earlier time is rolled out successfully
C35_Witness ==
    /\ lastRound.ran
    /\ \E w \in lastRound.succeeded \cap DOMAIN lastRound.tracking :
          /\ lastRound.tracking[w].LastRestartTime < now
          /\ workloadTracking[w].LastRestartTime = now


---------------------------------------------------------------------------
(* The stored version of a KV path *)

---------------------------------------------------------------------------
(* A version first read, and read again after failures *)

\* C37: a path read in this round at a version other than the one last read
\* for it, in the round before or before rounds in which its read failed, has
\* its workloads rolled out in this round.
C37_ChangeSeenAcrossFailedReads ==
    (lastRound.ran /\ applied.done) =>
        \A p \in DOMAIN applied.observedBefore \cap DOMAIN secretVersions :
            applied.observedBefore[p] # secretVersions[p] =>
                IndexedUnder(p) \subseteq DOMAIN lastRound.calls

C39_RefreshKeepsRolloutTime ==
    [][lastRound.ran =>
          \A w \in lastRound.succeeded \cap DOMAIN workloadTracking \cap DOMAIN workloadTracking' :
              workloadTracking'[w].LastRestartTime >= workloadTracking[w].LastRestartTime]_vars


---------------------------------------------------------------------------
(* One round at a time *)

\* a step in which a round begins: Phase A is entered, or a task is started
RoundStarts ==
    /\ round'.phase = "A"
    /\ round.phase # "A" \/ \E t \in Tasks : pc[t] # "read" /\ pc'[t] = "read"
\* a step in which runReloader returns
RoundReturns == round.phase # "idle" /\ round'.phase = "idle"

\* C40: a round begins only when no round is in progress, and a round returns
\* only when every one of its reads and rollouts has finished; c.secretVersions
\* is written by the returning round alone.
C40_RoundsNeverOverlap ==
    [][/\ RoundStarts => round.phase = "idle" /\ \A t \in Tasks : pc[t] = "idle"
       /\ RoundReturns => FinishedTasks = Tasks /\ round.pending = {}
       /\ secretVersions' # secretVersions => RoundReturns]_vars
\* a second round is reading while the versions the first one recorded are in
\* c.secretVersions
C40_Witness ==
    /\ round.phase = "A"
    /\ DOMAIN secretVersions = {PathA, PathB}
    /\ \E t \in Tasks : pc[t] = "locked"
    /\ \E t \in Tasks : pc[t] = "read"

===========================================================================
